---- MODULE Spec2Model ----
(***************************************************************************)
(* A model of the Drips SDK's receiver-list handling: the validators of    *)
(* src/common/validators.ts, the canonicalisation (deduplicate, then sort) *)
(* of AddressAppClient.ts, and the client operations that validate their   *)
(* arguments and then call the contract.                                   *)
(*                                                                         *)
(* One action is one call of a function or client method with arguments    *)
(* drawn from small sets; the state after the action is the outcome of     *)
(* that call: the arrays the caller and the callee hold (heap), the value  *)
(* returned (ret), the error thrown (err) and the contract calls made      *)
(* (calls).                                                                *)
(*                                                                         *)
(* Two more state machines share the initial state: one AccountEstimator   *)
(* with its asynchronous refreshes (EstimatorSpec), and one                *)
(* AddressAppClient from create on (ClientSpec).                           *)
(***************************************************************************)
EXTENDS Integers, Sequences, FiniteSets

\* One call of a validator, a format function or a client method.
VARIABLES op, args, pre, heap, ret, err, calls
\* One AccountEstimator instance and the asynchronous calls on it.
VARIABLES estimator, account, invocations, fetched, quiet
\* The AddressAppClient instance that create returned.
VARIABLES client

clientVars == <<op, args, pre, heap, ret, err, calls, client>>

estimatorVars == <<estimator, account, invocations, fetched, quiet>>

vars ==
    <<op, args, pre, heap, ret, err, calls, estimator, account, invocations, fetched, quiet,
      client>>

(***************************************************************************)
(* Bounds of the model.                                                    *)
(***************************************************************************)
\* Longest receiver list whose entries are enumerated freely.
MaxLen == 3
\* Longest list that is also tried in every order (permutations).
MaxPermLen == 2
\* Longest freely enumerated list given to a client operation.
MaxOpLen == 2
\* How far around the count limits the long uniform lists reach.
Slack == 1
\* Longest receiver list in the payload of a flow.
MaxFlowLen == 2
\* Longest squeezeArgs list in the payload of a collect flow.
MaxSqueezes == 2
\* Calls of create and refreshAccount made on the estimator in one behaviour.
MaxInvocations == 3
\* Calls of estimate between two refresh events.
MaxEstimates == 2
\* Versions of the account data the account service can return.
MaxVersion == 2
\* Cycles after a chain's epoch in which the clock is read.
MaxCycles == 2
\* Radix standing for one packed field of a drips configuration (2^32 in the
\* protocol); the fields of the model's configurations stay below it.
FieldBase == 2

(***************************************************************************)
(* JavaScript values.  A BigNumberish value keeps its representation (k)   *)
(* with its numeric value (v): 1 and '1' are different values that toBN    *)
(* maps to the same big integer.                                           *)
(***************************************************************************)
Undefined == [k |-> "undefined", v |-> 0]
Num(n) == [k |-> "number", v |-> n]
Str(n) == [k |-> "string", v |-> n]
Big(n) == [k |-> "bigint", v |-> n]

\* internals.isNullOrUndefined
isNullOrUndefined(x) == x.k = "undefined"

\* JavaScript's `!x` for the values of the model: undefined, 0 and 0n
\* are falsy, the string '0' is not.
Falsy(x) == x.k = "undefined" \/ (x.k \in {"number", "bigint"} /\ x.v = 0)

\* a === b on primitives: same type and same value.
StrictEq(a, b) == a = b

\* internals.toBN: the big integer a BigNumberish value stands for.
toBN(x) == x.v

(***************************************************************************)
(* Errors (DripsError.ts).                                                 *)
(***************************************************************************)
DripsErrorCode ==
    { "INVALID_ADDRESS", "INVALID_ARGUMENT", "MISSING_ARGUMENT",
      "UNSUPPORTED_NETWORK", "SUBGRAPH_QUERY_ERROR",
      "INVALID_DRIPS_RECEIVER", "INVALID_SPLITS_RECEIVER" }

\* The static factories of class DripsErrors, each with the code it sets.
DripsErrors ==
    [ addressError            |-> "INVALID_ADDRESS",
      argumentMissingError    |-> "MISSING_ARGUMENT",
      unsupportedNetworkError |-> "UNSUPPORTED_NETWORK",
      argumentError           |-> "INVALID_ARGUMENT",
      splitsReceiverError     |-> "INVALID_SPLITS_RECEIVER",
      dripsReceiverError      |-> "INVALID_DRIPS_RECEIVER",
      subgraphQueryError      |-> "SUBGRAPH_QUERY_ERROR" ]

NoError == [type |-> "none", code |-> "none", factory |-> "none"]

\* `throw DripsErrors.<factory>(...)`: a DripsError with the factory's code
\* when DripsErrors has that member; calling a member it does not have
\* throws a TypeError (undefined is not a function) instead.
Throw(factory) ==
    IF factory \in DOMAIN DripsErrors
    THEN [type |-> "DripsError", code |-> DripsErrors[factory], factory |-> factory]
    ELSE [type |-> "TypeError", code |-> "none", factory |-> factory]

\* The first error of a sequence of checks run one after the other.
RECURSIVE FirstError(_)
FirstError(results) ==
    IF results = <<>> THEN NoError
    ELSE IF Head(results) # NoError THEN Head(results)
    ELSE FirstError(Tail(results))

(***************************************************************************)
(* validators.ts                                                           *)
(***************************************************************************)
MAX_DRIPS_RECEIVERS == 100
MAX_SPLITS_RECEIVERS == 200

ValidAddresses == {"0xToken", "0xUser"}
Addresses == ValidAddresses \cup {"notAnAddress"}

\* ethers.utils.isAddress
isAddress(address) == address \in ValidAddresses

validateAddress(address) ==
    IF ~isAddress(address) THEN Throw("addressError") ELSE NoError

\* A DripsReceiverConfig object; present = FALSE is an absent (undefined)
\* configuration.
MissingConfig ==
    [present |-> FALSE, dripId |-> Undefined, start |-> Undefined,
     duration |-> Undefined, amountPerSec |-> Undefined]

Config(d, s, dur, a) ==
    [present |-> TRUE, dripId |-> d, start |-> s, duration |-> dur, amountPerSec |-> a]

\* The checks of validateDripsReceiverConfig in the order of its if
\* statements: the name of the first one that throws ("none" when none does).
dripsReceiverConfigCheck(dripsReceiverConfig) ==
    IF ~dripsReceiverConfig.present
    THEN "dripsReceiverConfig"
    ELSE IF isNullOrUndefined(dripsReceiverConfig.dripId) \/ dripsReceiverConfig.dripId.v < 0
    THEN "dripId"
    ELSE IF isNullOrUndefined(dripsReceiverConfig.start) \/ dripsReceiverConfig.start.v < 0
    THEN "start"
    ELSE IF isNullOrUndefined(dripsReceiverConfig.duration) \/ dripsReceiverConfig.duration.v < 0
    THEN "duration"
    ELSE IF isNullOrUndefined(dripsReceiverConfig.amountPerSec) \/ dripsReceiverConfig.amountPerSec.v <= 0
    THEN "amountPerSec"
    ELSE "none"

\* What the check that fails throws.
validateDripsReceiverConfig(dripsReceiverConfig) ==
    LET check == dripsReceiverConfigCheck(dripsReceiverConfig)
    IN  IF check = "none" THEN NoError
        ELSE IF check = "dripsReceiverConfig" THEN Throw("argumentMissingError")
        ELSE Throw("dripsReceiverConfigError")

\* The checks of validateDripsReceivers' forEach callback on one receiver,
\* in order: the name of the first one that throws.
dripsReceiverCheck(receiver) ==
    IF isNullOrUndefined(receiver.userId)
    THEN "userId"
    ELSE IF ~receiver.config.present
    THEN "config"
    ELSE dripsReceiverConfigCheck(receiver.config)

\* The body of validateDripsReceivers' forEach callback, for one receiver.
validateDripsReceiver(receiver) ==
    LET check == dripsReceiverCheck(receiver)
    IN  IF check \in {"userId", "config"} THEN Throw("dripsReceiverError")
        ELSE validateDripsReceiverConfig(receiver.config)

\* validateSplitsReceiver without the check for an absent weight.
validateSplitsReceiverNoMissingWeight(receiver) ==
    IF Falsy(receiver.userId)
    THEN Throw("splitsReceiverError")
    ELSE IF ~isNullOrUndefined(receiver.weight) /\ receiver.weight.v <= 0
    THEN Throw("splitsReceiverError")
    ELSE NoError

\* The body of validateSplitsReceivers' forEach callback, for one receiver.
validateSplitsReceiver(receiver) ==
    IF Falsy(receiver.userId)
    THEN Throw("splitsReceiverError")
    ELSE IF isNullOrUndefined(receiver.weight)
    THEN Throw("splitsReceiverError")
    ELSE IF receiver.weight.v <= 0
    THEN Throw("splitsReceiverError")
    ELSE NoError

\* An argument that is a list: absent (undefined) or an array.
Absent == [present |-> FALSE, items |-> <<>>]
List(items) == [present |-> TRUE, items |-> items]

\* receivers.forEach(...): the callback runs on the receivers in order
\* and the first throw ends the loop.
forEachDripsReceiver(items) ==
    LET throwing == {i \in 1..Len(items) : validateDripsReceiver(items[i]) # NoError}
    IN  IF throwing = {} THEN NoError
        ELSE validateDripsReceiver(items[CHOOSE i \in throwing : \A j \in throwing : i <= j])

forEachSplitsReceiver(items) ==
    LET throwing == {i \in 1..Len(items) : validateSplitsReceiver(items[i]) # NoError}
    IN  IF throwing = {} THEN NoError
        ELSE validateSplitsReceiver(items[CHOOSE i \in throwing : \A j \in throwing : i <= j])

\* validateDripsReceivers with the receivers checked before the count.
validateDripsReceiversEntriesFirst(receivers) ==
    IF ~receivers.present
    THEN Throw("argumentMissingError")
    ELSE IF forEachDripsReceiver(receivers.items) # NoError
    THEN forEachDripsReceiver(receivers.items)
    ELSE IF Len(receivers.items) > MAX_DRIPS_RECEIVERS
    THEN Throw("argumentError")
    ELSE NoError

\* validateDripsReceivers with the count compared by >= instead of >.
validateDripsReceiversOffByOne(receivers) ==
    IF ~receivers.present
    THEN Throw("argumentMissingError")
    ELSE IF Len(receivers.items) >= MAX_DRIPS_RECEIVERS
    THEN Throw("argumentError")
    ELSE forEachDripsReceiver(receivers.items)

validateDripsReceivers(receivers) ==
    IF ~receivers.present
    THEN Throw("argumentMissingError")
    ELSE IF Len(receivers.items) > MAX_DRIPS_RECEIVERS
    THEN Throw("argumentError")
    ELSE forEachDripsReceiver(receivers.items)

validateSplitsReceivers(receivers) ==
    IF ~receivers.present
    THEN Throw("argumentMissingError")
    ELSE IF Len(receivers.items) > MAX_SPLITS_RECEIVERS
    THEN Throw("argumentError")
    ELSE forEachSplitsReceiver(receivers.items)

(***************************************************************************)
(* Packed drips configurations.  Utils.DripsReceiverConfiguration packs    *)
(* dripId, amountPerSec, start and duration into one unsigned integer,     *)
(* most significant field first; the model keeps the layout with           *)
(* FieldBase in place of the protocol's field widths.                      *)
(***************************************************************************)
toUint256(dripId, amountPerSec, start, duration) ==
    ((dripId * FieldBase + amountPerSec) * FieldBase + start) * FieldBase + duration

fromUint256(n) ==
    Config(Big(n \div (FieldBase * FieldBase * FieldBase)),
           Big((n \div FieldBase) % FieldBase),
           Big(n % FieldBase),
           Big((n \div (FieldBase * FieldBase)) % FieldBase))

\* A DripsReceiverStruct (userId, packed config) as the validators see it:
\* the same user with the configuration unpacked.
toDripsReceiver(r) ==
    [userId |-> r.userId,
     config |-> IF isNullOrUndefined(r.config) THEN MissingConfig
                ELSE fromUint256(toBN(r.config))]

(***************************************************************************)
(* Canonicalisation (AddressAppClient.ts, #formatDripsReceivers and        *)
(* #formatSplitReceivers): deduplicate with reduce/some, then sort.        *)
(***************************************************************************)
\* The predicate of `unique.some(...)` in #formatDripsReceivers.
sameDripsReceiver(obj, o) ==
    StrictEq(obj.userId, o.userId) /\ toBN(obj.config) = toBN(o.config)

\* The predicate of `unique.some(...)` in #formatSplitReceivers.
sameSplitsReceiver(obj, o) ==
    StrictEq(obj.userId, o.userId) /\ StrictEq(obj.weight, o.weight)

same(kind, obj, o) ==
    IF kind = "drips" THEN sameDripsReceiver(obj, o) ELSE sameSplitsReceiver(obj, o)

\* receivers.reduce((unique, o) => { if (!unique.some(same)) unique.push(o);
\* return unique }, []): the receivers left to right, each pushed unless an
\* entry already pushed is the same.
RECURSIVE uniqueReceivers(_, _)
uniqueReceivers(kind, receivers) ==
    IF receivers = <<>> THEN <<>>
    ELSE LET unique == uniqueReceivers(kind, SubSeq(receivers, 1, Len(receivers) - 1))
             o == receivers[Len(receivers)]
         IN  IF \E i \in 1..Len(unique) : same(kind, unique[i], o)
             THEN unique
             ELSE Append(unique, o)

\* dripsCompare without the second key: by userId alone.
dripsCompareUserIdOnly(a, b) ==
    IF toBN(a.userId) > toBN(b.userId) THEN 1
    ELSE IF toBN(a.userId) < toBN(b.userId) THEN -1
    ELSE 0

\* The comparator of #formatDripsReceivers: by userId, then by config, both
\* as big integers.
dripsCompare(a, b) ==
    IF toBN(a.userId) > toBN(b.userId) THEN 1
    ELSE IF toBN(a.userId) < toBN(b.userId) THEN -1
    ELSE IF toBN(a.config) > toBN(b.config) THEN 1
    ELSE IF toBN(a.config) < toBN(b.config) THEN -1
    ELSE 0

\* splitsCompare as written without the equal case: never 0.
splitsCompareNeverEqual(a, b) ==
    IF toBN(a.userId) < toBN(b.userId) THEN -1 ELSE 1

\* The comparator of #formatSplitReceivers: by userId as big integers.
splitsCompare(a, b) ==
    IF toBN(a.userId) > toBN(b.userId) THEN 1
    ELSE IF toBN(a.userId) < toBN(b.userId) THEN -1
    ELSE 0

compare(kind, a, b) ==
    IF kind = "drips" THEN dripsCompare(a, b) ELSE splitsCompare(a, b)

\* Array.prototype.sort(compare): a stable sort (ECMAScript 2019), here by
\* insertion: each element goes before the first element that compares
\* greater than it, so entries that compare equal keep their order.
insert(kind, sorted, x) ==
    LET greater == {i \in 1..Len(sorted) : compare(kind, sorted[i], x) > 0}
        p == IF greater = {} THEN Len(sorted) + 1
             ELSE CHOOSE i \in greater : \A j \in greater : i <= j
    IN  SubSeq(sorted, 1, p - 1) \o <<x>> \o SubSeq(sorted, p, Len(sorted))

RECURSIVE sort(_, _)
sort(kind, s) ==
    IF s = <<>> THEN <<>>
    ELSE insert(kind, sort(kind, SubSeq(s, 1, Len(s) - 1)), s[Len(s)])

\* A format that sorts the caller's array in place and returns it.
formatInPlace(kind, h, r) ==
    [heap |-> [h EXCEPT ![r] = sort(kind, uniqueReceivers(kind, h[r]))], ret |-> r]

\* The effect of a format call on the arrays: reduce fills a new array (the
\* next free reference), sort orders that array in place and returns it;
\* the argument h[r] is only read.
format(kind, h, r) ==
    LET unique == Len(h) + 1
        h1 == Append(h, uniqueReceivers(kind, h[r]))
    IN  [heap |-> [h1 EXCEPT ![unique] = sort(kind, h1[unique])], ret |-> unique]

formatDripsReceivers(h, r) == format("drips", h, r)

formatSplitReceivers(h, r) == format("splits", h, r)

formatReceivers(kind, h, r) ==
    IF kind = "drips" THEN formatDripsReceivers(h, r) ELSE formatSplitReceivers(h, r)

(***************************************************************************)
(* The contract behind the client: a call is recorded with the method and  *)
(* the arguments it receives (arrays by their content at the call).        *)
(***************************************************************************)
Call(method, scalars, lists) == [method |-> method, scalars |-> scalars, lists |-> lists]

\* The list argument held at reference r (0 is undefined).
ListAt(h, r) == IF r = 0 THEN Absent ELSE List(h[r])

\* The outcome of one invocation.
Outcome(h, r, e, c) == [heap |-> h, ret |-> r, err |-> e, calls |-> c]

Map(f(_), s) == [i \in 1..Len(s) |-> f(s[i])]

\* What the validators are given for a list of DripsReceiverStructs.
toDripsReceivers(receivers) ==
    IF receivers.present THEN List(Map(toDripsReceiver, receivers.items)) ELSE Absent

(***************************************************************************)
(* Client operations (AddressAppClient.ts, ImmutableSplitsDriverClient).   *)
(* Each validates first; the first failing check throws and ends the call. *)
(***************************************************************************)
\* setSplits handing the receivers to the contract as given.
setSplitsUnformatted(h, receivers) ==
    LET e == validateSplitsReceivers(ListAt(h, receivers))
    IN  IF e # NoError THEN Outcome(h, 0, e, <<>>)
        ELSE Outcome(h, 0, NoError, <<Call("setSplits", <<>>, <<h[receivers]>>)>>)

\* AddressAppClient.setSplits(receivers)
setSplits(h, receivers) ==
    LET e == validateSplitsReceivers(ListAt(h, receivers))
        f == formatSplitReceivers(h, receivers)
    IN  IF e # NoError THEN Outcome(h, 0, e, <<>>)
        ELSE Outcome(f.heap, 0, NoError,
                     <<Call("setSplits", <<>>, <<f.heap[f.ret]>>)>>)

\* setDrips validating currentReceivers only after the contract call.
setDripsLateValidation(h, erc20TokenAddress, currentReceivers, newReceivers, balanceDelta) ==
    LET e == FirstError(<<validateAddress(erc20TokenAddress),
                          validateDripsReceivers(toDripsReceivers(ListAt(h, newReceivers)))>>)
        late == validateDripsReceivers(toDripsReceivers(ListAt(h, currentReceivers)))
        fNew == formatDripsReceivers(h, newReceivers)
        current == IF currentReceivers = 0 THEN <<>> ELSE h[currentReceivers]
        delta == IF isNullOrUndefined(balanceDelta) THEN Num(0) ELSE balanceDelta
    IN  IF e # NoError THEN Outcome(h, 0, e, <<>>)
        ELSE Outcome(fNew.heap, 0, late,
                     <<Call("setDrips", <<erc20TokenAddress, delta>>,
                            <<current, fNew.heap[fNew.ret]>>)>>)

\* AddressAppClient.setDrips(erc20TokenAddress, currentReceivers, newReceivers,
\* balanceDelta = 0)
setDrips(h, erc20TokenAddress, currentReceivers, newReceivers, balanceDelta) ==
    LET e == FirstError(<<validateAddress(erc20TokenAddress),
                          validateDripsReceivers(toDripsReceivers(ListAt(h, newReceivers))),
                          validateDripsReceivers(toDripsReceivers(ListAt(h, currentReceivers)))>>)
        fNew == formatDripsReceivers(h, newReceivers)
        fCur == formatDripsReceivers(fNew.heap, currentReceivers)
        delta == IF isNullOrUndefined(balanceDelta) THEN Num(0) ELSE balanceDelta
    IN  IF e # NoError THEN Outcome(h, 0, e, <<>>)
        ELSE Outcome(fCur.heap, 0, NoError,
                     <<Call("setDrips", <<erc20TokenAddress, delta>>,
                            <<fCur.heap[fCur.ret], fCur.heap[fNew.ret]>>)>>)

\* AddressAppClient.collectAll(erc20TokenAddress, currentReceivers)
collectAll(h, signerAddress, erc20TokenAddress, currentReceivers) ==
    LET e == FirstError(<<validateAddress(erc20TokenAddress),
                          validateSplitsReceivers(ListAt(h, currentReceivers))>>)
    IN  IF e # NoError THEN Outcome(h, 0, e, <<>>)
        ELSE Outcome(h, 0, NoError,
                     <<Call("collectAll", <<signerAddress, erc20TokenAddress>>,
                            <<h[currentReceivers]>>)>>)

\* AddressAppClient.collectAllForAddress(userAddress, erc20TokenAddress,
\* currentReceivers)
collectAllForAddress(h, userAddress, erc20TokenAddress, currentReceivers) ==
    LET e == FirstError(<<validateAddress(userAddress),
                          validateAddress(erc20TokenAddress),
                          validateSplitsReceivers(ListAt(h, currentReceivers))>>)
    IN  IF e # NoError THEN Outcome(h, 0, e, <<>>)
        ELSE Outcome(h, 0, NoError,
                     <<Call("collectAll", <<userAddress, erc20TokenAddress>>,
                            <<h[currentReceivers]>>)>>)

\* AddressAppClient.give(receiverId, erc20TokenAddress, amount)
give(h, receiverId, erc20TokenAddress, amount) ==
    LET e == FirstError(<<IF Falsy(receiverId) THEN Throw("argumentMissingError") ELSE NoError,
                          validateAddress(erc20TokenAddress)>>)
    IN  IF e # NoError THEN Outcome(h, 0, e, <<>>)
        ELSE Outcome(h, 0, NoError,
                     <<Call("give", <<receiverId, erc20TokenAddress, amount>>, <<>>)>>)

\* ImmutableSplitsDriverClient.createSplits(receivers, metadata)
createSplits(h, receivers, metadata) ==
    LET e == FirstError(<<validateSplitsReceivers(ListAt(h, receivers)),
                          IF metadata = 0 THEN Throw("argumentMissingError") ELSE NoError>>)
    IN  IF e # NoError THEN Outcome(h, 0, e, <<>>)
        ELSE Outcome(h, 0, NoError,
                     <<Call("createSplits", <<>>, <<h[receivers], h[metadata]>>)>>)

(***************************************************************************)
(* The arguments the operations are tried on.                              *)
(***************************************************************************)
SeqsUpTo(S, n) == UNION {[1..k -> S] : k \in 0..n}

Repeat(e, n) == [i \in 1..n |-> e]

\* Lengths around a count limit.
LongLens(max) == (max - Slack)..(max + Slack)

Lists(S, n) == {List(items) : items \in SeqsUpTo(S, n)}

\* Every field of a DripsReceiverConfig: absent, negative, zero, positive.
ConfigFieldValues == {Undefined, Big(-1), Big(0), Big(1)}

ConfigObjects ==
    {MissingConfig} \cup
    {Config(d, s, dur, a) : d \in ConfigFieldValues, s \in ConfigFieldValues,
                            dur \in ConfigFieldValues, a \in ConfigFieldValues}

ValidConfig == Config(Big(0), Big(0), Big(0), Big(1))

\* Receivers as validateDripsReceivers takes them (userId, config object).
DripsReceivers ==
    [userId : {Undefined, Str(1)},
     config : {MissingConfig, ValidConfig,
               Config(Big(0), Big(0), Big(0), Big(0)),
               Config(Big(-1), Big(0), Big(0), Big(1))}]

ValidDripsReceiver == [userId |-> Str(1), config |-> ValidConfig]

\* A drips receiver with a defect in every check of the callback but the
\* first, and one with a defect in the first as well.
InvalidDripsReceivers ==
    {[userId |-> Str(1), config |-> MissingConfig],
     [userId |-> Undefined, config |-> Config(Big(0), Big(0), Big(0), Big(0))]}

\* The long lists hold valid receivers, or have an invalid last receiver.
DripsReceiverLists ==
    {Absent} \cup Lists(DripsReceivers, MaxLen) \cup
    {List(Repeat(ValidDripsReceiver, n)) : n \in LongLens(MAX_DRIPS_RECEIVERS)} \cup
    {List(Append(Repeat(ValidDripsReceiver, n - 1), e)) :
        n \in LongLens(MAX_DRIPS_RECEIVERS), e \in InvalidDripsReceivers}

\* Receivers as validateSplitsReceivers takes them.
SplitsReceivers ==
    [userId : {Undefined, Num(0), Str(1)},
     weight : {Undefined, Num(-1), Num(0), Num(1)}]

ValidSplitsReceiver == [userId |-> Str(1), weight |-> Num(1)]

InvalidSplitsReceivers ==
    {[userId |-> Undefined, weight |-> Num(1)], [userId |-> Str(1), weight |-> Num(0)]}

SplitsReceiverLists ==
    {Absent} \cup Lists(SplitsReceivers, MaxLen) \cup
    {List(Repeat(ValidSplitsReceiver, n)) : n \in LongLens(MAX_SPLITS_RECEIVERS)} \cup
    {List(Append(Repeat(ValidSplitsReceiver, n - 1), e)) :
        n \in LongLens(MAX_SPLITS_RECEIVERS), e \in InvalidSplitsReceivers}

\* Valid receivers as the client formats them: user ids in two
\* representations, weights and packed configurations.
UserIds == {Num(1), Str(1), Num(50), Num(100)}

SplitsStructs == [userId : UserIds, weight : {Num(1), Num(5)}]

PackedConfigs ==
    {Num(toUint256(0, 1, 0, 0)), Str(toUint256(0, 1, 0, 0)), Num(toUint256(0, 1, 0, 1))}

DripsStructs == [userId : UserIds, config : PackedConfigs]

Structs(kind) == IF kind = "drips" THEN DripsStructs ELSE SplitsStructs

\* Lists for the client operations: valid receivers out of order and an
\* invalid one, absent, and one list over the count limit.
SplitsOpStructs ==
    {[userId |-> Num(50), weight |-> Num(1)],
     [userId |-> Num(1), weight |-> Num(5)],
     [userId |-> Num(1), weight |-> Num(0)]}

SplitsOpLists ==
    {Absent} \cup Lists(SplitsOpStructs, MaxOpLen) \cup
    {List(Repeat([userId |-> Num(1), weight |-> Num(5)], MAX_SPLITS_RECEIVERS + 1))}

DripsOpStructs ==
    {[userId |-> Num(50), config |-> Num(toUint256(0, 1, 0, 0))],
     [userId |-> Num(1), config |-> Num(toUint256(0, 1, 0, 1))],
     [userId |-> Str(1), config |-> Num(toUint256(0, 1, 0, 1))],
     [userId |-> Num(1), config |-> Num(toUint256(0, 0, 0, 1))]}

DripsOpLists ==
    {Absent} \cup Lists(DripsOpStructs, MaxOpLen) \cup
    {List(Repeat([userId |-> Num(1), config |-> Num(toUint256(0, 1, 0, 1))],
                 MAX_DRIPS_RECEIVERS + 1))}

\* Payloads of the flows.
UserMetadata ==
    {Absent, List(<<>>), List(<<[key |-> Str(1), value |-> Str(2)]>>),
     List(<<[key |-> Str(1), value |-> Undefined]>>)}

\* The receivers a stream flow is tried on: lists of the receivers of the
\* client operations, up to MaxFlowLen of them.
FlowDripsLists == {Absent} \cup Lists(DripsOpStructs, MaxFlowLen)

FlowSplitsLists == {Absent} \cup Lists(SplitsOpStructs, MaxFlowLen)

\* squeezeArgs entries: two valid ones and one without a sender.
SqueezeArgs ==
    {[userId |-> Str(1), tokenAddress |-> "0xToken", senderId |-> senderId,
      historyHash |-> Str(0), dripsHistory |-> List(<<>>)] :
     senderId \in {Str(1), Str(2), Undefined}}

SqueezeArgsLists == {Absent} \cup Lists(SqueezeArgs, MaxSqueezes)

\* The caller's arrays: a list argument is stored at the next reference, an
\* absent one is passed as undefined (reference 0).
Store(h, l) ==
    IF l.present THEN [heap |-> Append(h, l.items), ref |-> Len(h) + 1]
    ELSE [heap |-> h, ref |-> 0]

Orders(n) == {f \in [1..n -> 1..n] : \A i, j \in 1..n : f[i] = f[j] => i = j}

(***************************************************************************)
(* The input validators of the batched flows (validators.ts).              *)
(***************************************************************************)
validateSetDripsInput(tokenAddress, currentReceivers, newReceivers, transferToAddress, balanceDelta) ==
    FirstError(<<validateAddress(tokenAddress),
                 validateAddress(transferToAddress),
                 validateDripsReceivers(newReceivers),
                 validateDripsReceivers(currentReceivers),
                 IF isNullOrUndefined(balanceDelta)
                 THEN Throw("argumentMissingError") ELSE NoError>>)

\* metadata is a list of {key, value}; a missing key or value is Undefined.
validateEmitUserMetadataInput(metadata) ==
    IF ~metadata.present THEN Throw("argumentError")
    ELSE IF \E i \in 1..Len(metadata.items) :
                \/ isNullOrUndefined(metadata.items[i].key)
                \/ isNullOrUndefined(metadata.items[i].value)
    THEN Throw("argumentError")
    ELSE NoError

validateReceiveDripsInput(userId, tokenAddress, maxCycles) ==
    FirstError(<<validateAddress(tokenAddress),
                 IF isNullOrUndefined(userId) THEN Throw("argumentMissingError") ELSE NoError,
                 IF Falsy(maxCycles) \/ maxCycles.v < 0
                 THEN Throw("argumentError") ELSE NoError>>)

validateSplitInput(userId, tokenAddress, currentReceivers) ==
    FirstError(<<validateAddress(tokenAddress),
                 validateSplitsReceivers(currentReceivers),
                 IF isNullOrUndefined(userId) THEN Throw("argumentMissingError") ELSE NoError>>)

validateCollectInput(tokenAddress, transferToAddress) ==
    FirstError(<<validateAddress(tokenAddress), validateAddress(transferToAddress)>>)

validateSqueezeDripsInput(userId, tokenAddress, senderId, historyHash, dripsHistory) ==
    FirstError(<<validateAddress(tokenAddress),
                 IF Falsy(userId) THEN Throw("argumentMissingError") ELSE NoError,
                 IF Falsy(senderId) THEN Throw("argumentMissingError") ELSE NoError,
                 IF Falsy(historyHash) THEN Throw("argumentMissingError") ELSE NoError,
                 IF ~dripsHistory.present THEN Throw("argumentMissingError") ELSE NoError>>)

(***************************************************************************)
(* NFTDriverPresets.  The class is not among the sources at hand; the      *)
(* flows are modelled after its tests: the payload checks, the validators  *)
(* called with their arguments, and the calls encoded, in order.           *)
(***************************************************************************)
NoPayload == [present |-> FALSE]

\* The check of the payload and of its tokenId that both flows start with.
payloadError(payload) ==
    IF ~payload.present THEN Throw("argumentMissingError")
    ELSE IF Falsy(payload.tokenId) THEN Throw("argumentError")
    ELSE NoError

\* A flow that encodes emitUserMetadata before setDrips.
createNewStreamFlowMetadataFirst(h, payload) ==
    LET e == IF payloadError(payload) # NoError THEN payloadError(payload)
             ELSE FirstError(<<
                 validateSetDripsInput(payload.tokenAddress,
                     toDripsReceivers(ListAt(h, payload.currentReceivers)),
                     toDripsReceivers(ListAt(h, payload.newReceivers)),
                     payload.transferToAddress, payload.balanceDelta),
                 validateEmitUserMetadataInput(payload.userMetadata)>>)
        fCur == formatDripsReceivers(h, payload.currentReceivers)
        fNew == formatDripsReceivers(fCur.heap, payload.newReceivers)
    IN  IF e # NoError THEN Outcome(h, 0, e, <<>>)
        ELSE Outcome(fNew.heap, 0, NoError,
                 <<Call("emitUserMetadata", <<payload.tokenId>>,
                        <<payload.userMetadata.items>>),
                   Call("setDrips",
                        <<payload.tokenId, payload.tokenAddress, payload.balanceDelta,
                          Num(0), Num(0), payload.transferToAddress>>,
                        <<fNew.heap[fCur.ret], fNew.heap[fNew.ret]>>)>>)

\* Presets.createNewStreamFlow(payload)
createNewStreamFlow(h, payload) ==
    LET e == IF payloadError(payload) # NoError THEN payloadError(payload)
             ELSE FirstError(<<
                 validateSetDripsInput(payload.tokenAddress,
                     toDripsReceivers(ListAt(h, payload.currentReceivers)),
                     toDripsReceivers(ListAt(h, payload.newReceivers)),
                     payload.transferToAddress, payload.balanceDelta),
                 validateEmitUserMetadataInput(payload.userMetadata)>>)
        fCur == formatDripsReceivers(h, payload.currentReceivers)
        fNew == formatDripsReceivers(fCur.heap, payload.newReceivers)
    IN  IF e # NoError THEN Outcome(h, 0, e, <<>>)
        ELSE Outcome(fNew.heap, 0, NoError,
                 <<Call("setDrips",
                        <<payload.tokenId, payload.tokenAddress, payload.balanceDelta,
                          Num(0), Num(0), payload.transferToAddress>>,
                        <<fNew.heap[fCur.ret], fNew.heap[fNew.ret]>>),
                   Call("emitUserMetadata", <<payload.tokenId>>,
                        <<payload.userMetadata.items>>)>>)

\* The squeezeDrips calls of a flow, one per entry of squeezeArgs.
squeezeCalls(squeezeArgs) ==
    IF ~squeezeArgs.present THEN <<>>
    ELSE [i \in 1..Len(squeezeArgs.items) |->
             Call("squeezeDrips",
                  <<squeezeArgs.items[i].userId, squeezeArgs.items[i].tokenAddress,
                    squeezeArgs.items[i].senderId, squeezeArgs.items[i].historyHash>>,
                  <<squeezeArgs.items[i].dripsHistory.items>>)]

squeezeErrors(squeezeArgs) ==
    IF ~squeezeArgs.present THEN <<>>
    ELSE [i \in 1..Len(squeezeArgs.items) |->
             validateSqueezeDripsInput(squeezeArgs.items[i].userId,
                 squeezeArgs.items[i].tokenAddress, squeezeArgs.items[i].senderId,
                 squeezeArgs.items[i].historyHash, squeezeArgs.items[i].dripsHistory)]

\* The calls of a collect flow whose inputs are valid.
collectFlowCalls(payload, skipReceive, skipSplit, formattedReceivers) ==
    squeezeCalls(payload.squeezeArgs)
    \o (IF skipReceive THEN <<>>
        ELSE <<Call("receiveDrips",
                    <<payload.userId, payload.tokenAddress, payload.maxCycles>>, <<>>)>>)
    \o (IF skipSplit THEN <<>>
        ELSE <<Call("split", <<payload.userId, payload.tokenAddress>>,
                    <<formattedReceivers>>)>>)
    \o <<Call("collect",
              <<payload.tokenId, payload.tokenAddress, payload.transferToAddress>>, <<>>)>>

\* A flow that puts collect before split.
createCollectFlowCollectEarly(h, payload, skipReceive, skipSplit) ==
    LET e == IF payloadError(payload) # NoError THEN payloadError(payload)
             ELSE FirstError(
                 squeezeErrors(payload.squeezeArgs)
                 \o (IF skipReceive THEN <<>>
                     ELSE <<validateReceiveDripsInput(payload.userId, payload.tokenAddress,
                                                      payload.maxCycles)>>)
                 \o (IF skipSplit THEN <<>>
                     ELSE <<validateSplitInput(payload.userId, payload.tokenAddress,
                                               ListAt(h, payload.currentReceivers))>>)
                 \o <<validateCollectInput(payload.tokenAddress, payload.transferToAddress)>>)
        f == IF skipSplit THEN [heap |-> h, ret |-> 0]
             ELSE formatSplitReceivers(h, payload.currentReceivers)
        flow == collectFlowCalls(payload, skipReceive, skipSplit,
                                 IF skipSplit THEN <<>> ELSE f.heap[f.ret])
    IN  IF e # NoError THEN Outcome(h, 0, e, <<>>)
        ELSE Outcome(f.heap, 0, NoError,
                     IF skipSplit THEN flow
                     ELSE SubSeq(flow, 1, Len(flow) - 2)
                          \o <<flow[Len(flow)], flow[Len(flow) - 1]>>)

\* Presets.createCollectFlow(payload, skipReceive = false, skipSplit = false)
createCollectFlow(h, payload, skipReceive, skipSplit) ==
    LET e == IF payloadError(payload) # NoError THEN payloadError(payload)
             ELSE FirstError(
                 squeezeErrors(payload.squeezeArgs)
                 \o (IF skipReceive THEN <<>>
                     ELSE <<validateReceiveDripsInput(payload.userId, payload.tokenAddress,
                                                      payload.maxCycles)>>)
                 \o (IF skipSplit THEN <<>>
                     ELSE <<validateSplitInput(payload.userId, payload.tokenAddress,
                                               ListAt(h, payload.currentReceivers))>>)
                 \o <<validateCollectInput(payload.tokenAddress, payload.transferToAddress)>>)
        f == IF skipSplit THEN [heap |-> h, ret |-> 0]
             ELSE formatSplitReceivers(h, payload.currentReceivers)
    IN  IF e # NoError THEN Outcome(h, 0, e, <<>>)
        ELSE Outcome(f.heap, 0, NoError,
                     collectFlowCalls(payload, skipReceive, skipSplit,
                                      IF skipSplit THEN <<>> ELSE f.heap[f.ret]))

(***************************************************************************)
(* DripsSubgraphClient: the senders streaming to a user.                   *)
(***************************************************************************)
\* BigInt(s) of a decimal string of the API.
BigInt(x) == Big(x.v)

\* mapDripsReceiverSeenEventToDto (the fields the client reads).
mapDripsReceiverSeenEventToDto(dripsReceiverSeenEvent) ==
    [id |-> dripsReceiverSeenEvent.id,
     senderUserId |-> BigInt(dripsReceiverSeenEvent.senderUserId),
     receiverUserId |-> BigInt(dripsReceiverSeenEvent.receiverUserId)]

\* query(...): the response of the subgraph, or subgraphQueryError when the
\* HTTP status is not 2xx.
query(status, dripsReceiverSeenEvents) ==
    IF status >= 200 /\ status <= 299
    THEN [err |-> NoError, data |-> dripsReceiverSeenEvents]
    ELSE [err |-> Throw("subgraphQueryError"), data |-> Absent]

\* getDripsReceiverSeenEventsByReceiverId(receiverUserId), given what the
\* subgraph answers.
getDripsReceiverSeenEventsByReceiverId(receiverUserId, status, dripsReceiverSeenEvents) ==
    LET response == query(status, dripsReceiverSeenEvents)
    IN  IF Falsy(receiverUserId)
        THEN [err |-> Throw("argumentMissingError"), events |-> <<>>]
        ELSE IF response.err # NoError
        THEN [err |-> response.err, events |-> <<>>]
        ELSE IF ~response.data.present \/ Len(response.data.items) = 0
        THEN [err |-> NoError, events |-> <<>>]
        ELSE [err |-> NoError,
              events |-> [i \in 1..Len(response.data.items) |->
                             mapDripsReceiverSeenEventToDto(response.data.items[i])]]

\* A reduce in which a sender seen again replaces its earlier entry.
RECURSIVE uniqueSendersLastWins(_)
uniqueSendersLastWins(dripReceiverSeenEvents) ==
    IF dripReceiverSeenEvents = <<>> THEN <<>>
    ELSE LET n == Len(dripReceiverSeenEvents)
             o == dripReceiverSeenEvents[n]
             unique == uniqueSendersLastWins(SubSeq(dripReceiverSeenEvents, 1, n - 1))
         IN  Append(SelectSeq(unique, LAMBDA id : ~StrictEq(id, o.senderUserId)),
                    o.senderUserId)

\* dripReceiverSeenEvents.reduce((unique, o) => { if (!unique.some(id =>
\* id === o.senderUserId)) unique.push(o.senderUserId); return unique }, [])
RECURSIVE uniqueSenders(_)
uniqueSenders(dripReceiverSeenEvents) ==
    IF dripReceiverSeenEvents = <<>> THEN <<>>
    ELSE LET n == Len(dripReceiverSeenEvents)
             o == dripReceiverSeenEvents[n]
             unique == uniqueSenders(SubSeq(dripReceiverSeenEvents, 1, n - 1))
         IN  IF \E i \in 1..Len(unique) : StrictEq(unique[i], o.senderUserId)
             THEN unique
             ELSE Append(unique, o.senderUserId)

\* DripsSubgraphClient.getUsersStreamingToUser(receiverUserId); the events
\* the subgraph holds are at reference r of h (0: none in the response).
getUsersStreamingToUser(h, receiverUserId, status, r) ==
    LET seen == getDripsReceiverSeenEventsByReceiverId(receiverUserId, status, ListAt(h, r))
    IN  IF Falsy(receiverUserId) THEN Outcome(h, 0, Throw("argumentMissingError"), <<>>)
        ELSE IF seen.err # NoError THEN Outcome(h, 0, seen.err, <<>>)
        ELSE Outcome(Append(h, uniqueSenders(seen.events)), Len(h) + 1, NoError, <<>>)

\* The events of the API for a receiver: the senders, as decimal strings.
SenderUserIds == {Str(1), Str(2), Str(3)}

ApiDripsReceiverSeenEvents(receiverUserId) ==
    {[i \in 1..Len(senders) |->
         [id |-> i, senderUserId |-> senders[i], receiverUserId |-> receiverUserId]] :
     senders \in SeqsUpTo(SenderUserIds, MaxLen)}

(***************************************************************************)
(* The cycle of a chain (Utils.Cycle.getInfo).  The chain configurations   *)
(* are not part of the sources at hand; the model has a chain with the     *)
(* one-week cycle and a chain with a short cycle and a later epoch.        *)
(***************************************************************************)
SupportedChains == {1, 5}

NetworkConfigs ==
    [chainId \in SupportedChains |->
        IF chainId = 1 THEN [CYCLE_SECS |-> 604800, EPOCH |-> 0]
        ELSE [CYCLE_SECS |-> 7, EPOCH |-> 3]]

\* A calculator that counts the cycles from the start of the clock instead
\* of from the epoch of the chain.
getInfoFromZero(chainId, now) ==
    LET cycleDurationSecs == NetworkConfigs[chainId].CYCLE_SECS
        currentCycleSecs == now % cycleDurationSecs
        currentCycleStartDate == now - currentCycleSecs
    IN  [cycleDurationSecs |-> cycleDurationSecs,
         currentCycleStartDate |-> currentCycleStartDate,
         nextCycleStartDate |-> currentCycleStartDate + cycleDurationSecs]

\* getInfo(chainId) when the clock reads now (seconds).
getInfo(chainId, now) ==
    LET cycleDurationSecs == NetworkConfigs[chainId].CYCLE_SECS
        currentCycleSecs == (now - NetworkConfigs[chainId].EPOCH) % cycleDurationSecs
        currentCycleStartDate == now - currentCycleSecs
    IN  [cycleDurationSecs |-> cycleDurationSecs,
         currentCycleStartDate |-> currentCycleStartDate,
         nextCycleStartDate |-> currentCycleStartDate + cycleDurationSecs]

\* Readings of the clock: around the start of each of the first cycles of a
\* chain and in the middle of them.
Clock(chainId) ==
    LET c == NetworkConfigs[chainId]
    IN  {c.EPOCH + k * c.CYCLE_SECS + d :
            k \in 0..MaxCycles, d \in {0, 1, c.CYCLE_SECS \div 2, c.CYCLE_SECS - 1}}

\* Two readings for the estimates: inside a cycle and on a cycle start.
EstimateClock(chainId) ==
    {NetworkConfigs[chainId].EPOCH + 1,
     NetworkConfigs[chainId].EPOCH + NetworkConfigs[chainId].CYCLE_SECS}

(***************************************************************************)
(* AccountEstimator (the class in DripsSubgraph/mappers.ts).               *)
(***************************************************************************)
\* An account snapshot holds the history of each asset; Snapshot(v) is what
\* fetchAccount resolves to when the indexed data is at version v.
Assets == {"assetA", "assetB"}

Snapshot(v) == [a \in Assets |-> v]

\* #account before its first assignment.
NoAccount == [a \in Assets |-> 0]

\* The failures of fetchAccount: a DripsError of the subgraph query, or
\* any other Error of the transport.
FetchErrors ==
    {Throw("subgraphQueryError"), [type |-> "Error", code |-> "none", factory |-> "fetch"]}

NoEstimator == [state |-> "none", userId |-> "", chainId |-> 0]

\* The guards of create: `!userId` and `!chainId`.
createArgumentsError(userId, chainId) ==
    IF userId = "" THEN Throw("clientInitializationError")
    ELSE IF chainId = 0 THEN Throw("clientInitializationError")
    ELSE NoError

\* A call of create or refreshAccount: its state (pending at the await,
\* resolved or rejected), the number of fetchAccount calls it has made, the
\* outcome of its fetch (result or failure) and what it threw to its caller.
Invocation(method, state, n, result, failure, thrown) ==
    [method |-> method, state |-> state, fetched |-> n,
     result |-> result, failure |-> failure, thrown |-> thrown]

\* An assignment that merges the fetched snapshot into the stored one asset
\* by asset and is interrupted after the first.
mergeAccount(stored, fetchedAccount) ==
    [stored EXCEPT !["assetA"] = fetchedAccount["assetA"]]

\* `this.#account = await fetchAccount(...)` when the fetch resolves: the
\* stored snapshot is replaced by the fetched one.
assignAccount(stored, fetchedAccount) == fetchedAccount

\* A refresh that calls fetchAccount a second time before it gives up.
awaitRejectedRetrying(invocation, failure) ==
    Invocation(invocation.method, "rejected", invocation.fetched + 1,
               NoAccount, failure, failure)

\* The await of a rejected fetch: the rejection is thrown on as it is.
awaitRejected(invocation, failure) ==
    Invocation(invocation.method, "rejected", invocation.fetched,
               NoAccount, failure, failure)

\* An estimate that fetches the account before it calls the engine.
estimateRefetching(chainId, stored, now, excludingSqueezes) ==
    [stored |-> Snapshot(1),
     fetched |-> 1,
     engine |-> [account |-> Snapshot(1), currentCycle |-> getInfo(chainId, now),
                 excludingSqueezes |-> excludingSqueezes]]

\* estimate(excludingSqueezes): the snapshot stored after the call, the
\* fetchAccount calls made, and what the engine is handed.
estimate(chainId, stored, now, excludingSqueezes) ==
    [stored |-> stored,
     fetched |-> 0,
     engine |-> [account |-> stored, currentCycle |-> getInfo(chainId, now),
                 excludingSqueezes |-> excludingSqueezes]]

\* The estimates made since the last call or settlement of a refresh, with
\* the snapshot stored and the number of fetches at that point.
Quiet(a, n) == [account |-> a, fetched |-> n, handed |-> <<>>]

(***************************************************************************)
(* The estimation engine (EstimatorEngine.estimateAccount).  The class is  *)
(* not among the sources at hand; the model follows the description of the *)
(* engine: per incoming stream, the seconds of its accrual window times    *)
(* its rate, less the seconds that matching squeezes cover.  The cap on    *)
(* the cycles counted is left out.                                         *)
(***************************************************************************)
\* The time of the estimates.
Now == 1000

Max(a, b) == IF a >= b THEN a ELSE b
Min(a, b) == IF a <= b THEN a ELSE b

\* An incoming drips configuration of an asset.
Stream(senderUserId, amountPerSec, start, duration, maxEnd) ==
    [senderUserId |-> senderUserId, amountPerSec |-> amountPerSec, start |-> start,
     duration |-> duration, maxEnd |-> maxEnd]

\* A squeeze of the stream of a sender: the seconds from..(to - 1).
Squeeze(senderUserId, from, to) == [senderUserId |-> senderUserId, from |-> from, to |-> to]

\* The end of a stream: start + duration, or maxEnd when it is unbounded.
streamEnd(stream) ==
    IF stream.duration = 0 THEN stream.maxEnd
    ELSE Min(stream.start + stream.duration, stream.maxEnd)

\* A window that is not clamped: its seconds are counted with their sign.
elapsedSecondsUnclamped(stream, now) == Min(now, streamEnd(stream)) - stream.start

\* The elapsed active seconds of a stream at now, never negative.
elapsedSeconds(stream, now) == Max(0, Min(now, streamEnd(stream)) - stream.start)

\* The seconds of the accrual window of a stream.
window(stream, now) == {t \in stream.start..(stream.start + elapsedSeconds(stream, now) - 1) : TRUE}

\* The seconds every matching squeeze covers, counted once per squeeze.
squeezedSecondsPerSqueeze(stream, now, excludingSqueezes) ==
    LET matching == {q \in excludingSqueezes : q.senderUserId = stream.senderUserId}
        Covered(q) == Cardinality({t \in window(stream, now) : q.from <= t /\ t < q.to})
        RECURSIVE Sum(_)
        Sum(Q) == IF Q = {} THEN 0
                  ELSE LET q == CHOOSE x \in Q : TRUE IN Covered(q) + Sum(Q \ {q})
    IN  Sum(matching)

\* The seconds of the window that the squeezes of the sender cover.
squeezedSeconds(stream, now, excludingSqueezes) ==
    Cardinality({t \in window(stream, now) :
        \E q \in excludingSqueezes :
            q.senderUserId = stream.senderUserId /\ q.from <= t /\ t < q.to})

\* estimateAccount for one asset with one incoming stream.
estimateAccount(stream, now, excludingSqueezes) ==
    [receivableAmount |->
        stream.amountPerSec *
            (elapsedSeconds(stream, now) - squeezedSeconds(stream, now, excludingSqueezes)),
     totalStreamsCount |-> 1,
     incomingStreams |-> <<[senderUserId |-> stream.senderUserId,
                            amountPerSec |-> stream.amountPerSec]>>]

\* Incoming streams: started in the past, now, or not yet; unbounded or
\* not; with maxEnd ahead or passed.
Streams ==
    {Stream("1", r, Now - s, d, m) :
        r \in {1, 2}, s \in {-5, 0, 40, 100}, d \in {0, 50}, m \in {Now + 10, Now - 20}}

\* Squeezes of a stream: its first 40 seconds, seconds 20 to 60, and the
\* first 40 seconds of the stream of another sender.
SqueezesOf(stream) ==
    SUBSET {Squeeze("1", stream.start, stream.start + 40),
            Squeeze("1", stream.start + 20, stream.start + 60),
            Squeeze("2", stream.start, stream.start + 40)}

(***************************************************************************)
(* AddressAppClient.create.  The provider is the caller's: what its signer *)
(* and its network answer are inputs of the call.                          *)
(***************************************************************************)
\* Utils.Network.isSupportedChain
isSupportedChain(chainId) == chainId \in SupportedChains

\* No instance (create threw, or was not called).  In an instance the
\* signer and the DripsHubClient go by the provider they belong to, and the
\* chain metadata by its chain.
NoClient ==
    [state |-> "none", signer |-> "", signerAddress |-> "", network |-> 0,
     provider |-> "", chainDripsMetadata |-> 0, dripsHub |-> ""]

\* The failure of DripsHubClient.create, whatever it is.
DripsHubFailure == [type |-> "Error", code |-> "none", factory |-> "DripsHubClient.create"]

\* A provider as create gets it: absent, or an object whose signer answers
\* getAddress() with signerAddress at the first call and with
\* laterSignerAddress at the second, whose network has chainId (0: no
\* network), and for which DripsHubClient.create succeeds or not.
Provider(id, signerAddress, laterSignerAddress, chainId, dripsHub) ==
    [present |-> TRUE, id |-> id, signerAddress |-> signerAddress,
     laterSignerAddress |-> laterSignerAddress, chainId |-> chainId, dripsHub |-> dripsHub]

NoProvider ==
    [present |-> FALSE, id |-> "", signerAddress |-> "", laterSignerAddress |-> "",
     chainId |-> 0, dripsHub |-> FALSE]

\* A create that looks at the network before it looks at the signer.
createNetworkFirst(provider) ==
    IF ~provider.present
    THEN [err |-> Throw("argumentMissingError"), client |-> NoClient]
    ELSE IF ~isSupportedChain(provider.chainId)
    THEN [err |-> Throw("unsupportedNetworkError"), client |-> NoClient]
    ELSE IF provider.signerAddress = ""
    THEN [err |-> Throw("argumentError"), client |-> NoClient]
    ELSE IF validateAddress(provider.signerAddress) # NoError
    THEN [err |-> validateAddress(provider.signerAddress), client |-> NoClient]
    ELSE IF ~provider.dripsHub
    THEN [err |-> DripsHubFailure, client |-> NoClient]
    ELSE [err |-> NoError,
          client |-> [state |-> "created",
                      signer |-> provider.id,
                      signerAddress |-> provider.laterSignerAddress,
                      network |-> provider.chainId,
                      provider |-> provider.id,
                      chainDripsMetadata |-> provider.chainId,
                      dripsHub |-> provider.id]]

\* AddressAppClient.create(provider): what it throws and the instance it
\* returns.
create(provider) ==
    IF ~provider.present
    THEN [err |-> Throw("argumentMissingError"), client |-> NoClient]
    ELSE IF provider.signerAddress = ""
    THEN [err |-> Throw("argumentError"), client |-> NoClient]
    ELSE IF validateAddress(provider.signerAddress) # NoError
    THEN [err |-> validateAddress(provider.signerAddress), client |-> NoClient]
    ELSE IF ~isSupportedChain(provider.chainId)
    THEN [err |-> Throw("unsupportedNetworkError"), client |-> NoClient]
    ELSE IF ~provider.dripsHub
    THEN [err |-> DripsHubFailure, client |-> NoClient]
    ELSE [err |-> NoError,
          client |-> [state |-> "created",
                      signer |-> provider.id,
                      signerAddress |-> provider.laterSignerAddress,
                      network |-> provider.chainId,
                      provider |-> provider.id,
                      chainDripsMetadata |-> provider.chainId,
                      dripsHub |-> provider.id]]

\* The providers given to create.
Providers ==
    {NoProvider} \cup
    {Provider("provider", a, l, c, d) :
        a \in {"", "notAnAddress", "0xUser"}, l \in {"0xUser", "0xToken"},
        c \in {0, 4, 5}, d \in BOOLEAN}

(***************************************************************************)
(* The state machine.                                                      *)
(***************************************************************************)
Init ==
    /\ op = "init"
    /\ args = [none |-> 0]
    /\ pre = <<>>
    /\ heap = <<>>
    /\ ret = 0
    /\ err = NoError
    /\ calls = <<>>
    /\ estimator = NoEstimator
    /\ account = NoAccount
    /\ invocations = <<>>
    /\ fetched = 0
    /\ quiet = Quiet(NoAccount, 0)
    /\ client = NoClient

ValidateDripsReceiverConfig ==
    /\ op = "init"
    /\ UNCHANGED <<client, estimatorVars>>
    /\ \E config \in ConfigObjects :
           /\ op' = "validateDripsReceiverConfig"
           /\ args' = [config |-> config]
           /\ pre' = <<>>
           /\ LET out == Outcome(<<>>, 0, validateDripsReceiverConfig(config), <<>>)
              IN  /\ heap' = out.heap
                  /\ ret' = out.ret
                  /\ err' = out.err
                  /\ calls' = out.calls

ValidateDripsReceivers ==
    /\ op = "init"
    /\ UNCHANGED <<client, estimatorVars>>
    /\ \E receivers \in DripsReceiverLists :
           /\ op' = "validateDripsReceivers"
           /\ args' = [receivers |-> receivers]
           /\ pre' = <<>>
           /\ LET out == Outcome(<<>>, 0, validateDripsReceivers(receivers), <<>>)
              IN  /\ heap' = out.heap
                  /\ ret' = out.ret
                  /\ err' = out.err
                  /\ calls' = out.calls

ValidateSplitsReceivers ==
    /\ op = "init"
    /\ UNCHANGED <<client, estimatorVars>>
    /\ \E receivers \in SplitsReceiverLists :
           /\ op' = "validateSplitsReceivers"
           /\ args' = [receivers |-> receivers]
           /\ pre' = <<>>
           /\ LET out == Outcome(<<>>, 0, validateSplitsReceivers(receivers), <<>>)
              IN  /\ heap' = out.heap
                  /\ ret' = out.ret
                  /\ err' = out.err
                  /\ calls' = out.calls

\* One call of #formatDripsReceivers on a list of valid receivers.
FormatDripsReceivers ==
    /\ op = "init"
    /\ UNCHANGED <<client, estimatorVars>>
    /\ \E items \in SeqsUpTo(DripsStructs, MaxLen) :
           /\ op' = "format"
           /\ args' = [kind |-> "drips", receivers |-> 1, canonical |-> FALSE]
           /\ pre' = <<items>>
           /\ LET out == formatDripsReceivers(<<items>>, 1)
              IN  /\ heap' = out.heap
                  /\ ret' = out.ret
                  /\ err' = NoError
                  /\ calls' = <<>>

\* One call of #formatSplitReceivers on a list of valid receivers.
FormatSplitReceivers ==
    /\ op = "init"
    /\ UNCHANGED <<client, estimatorVars>>
    /\ \E items \in SeqsUpTo(SplitsStructs, MaxLen) :
           /\ op' = "format"
           /\ args' = [kind |-> "splits", receivers |-> 1, canonical |-> FALSE]
           /\ pre' = <<items>>
           /\ LET out == formatSplitReceivers(<<items>>, 1)
              IN  /\ heap' = out.heap
                  /\ ret' = out.ret
                  /\ err' = NoError
                  /\ calls' = <<>>

\* The list a format call returned is formatted again.
Reformat ==
    /\ op = "format"
    /\ UNCHANGED <<client, estimatorVars>>
    /\ LET f == formatReceivers(args.kind, <<heap[ret]>>, 1)
       IN  /\ op' = "format"
           /\ args' = [kind |-> args.kind, receivers |-> 1, canonical |-> TRUE]
           /\ pre' = <<heap[ret]>>
           /\ LET out == Outcome(f.heap, f.ret, NoError, <<>>)
              IN  /\ heap' = out.heap
                  /\ ret' = out.ret
                  /\ err' = out.err
                  /\ calls' = out.calls

\* The same receivers handed over in two orders: a list (reference 1) and a
\* permutation of it (reference 2), each formatted; the results are at
\* references 3 and 4.
FormatPermuted ==
    /\ op = "init"
    /\ UNCHANGED <<client, estimatorVars>>
    /\ \E kind \in {"drips", "splits"} :
           \E items \in SeqsUpTo(Structs(kind), MaxPermLen) :
               \E p \in Orders(Len(items)) :
                   LET permuted == [i \in 1..Len(items) |-> items[p[i]]]
                       f1 == formatReceivers(kind, <<items, permuted>>, 1)
                       f2 == formatReceivers(kind, f1.heap, 2)
                   IN  /\ op' = "formatPermuted"
                       /\ args' = [kind |-> kind, receivers |-> 1, permuted |-> 2]
                       /\ pre' = <<items, permuted>>
                       /\ LET out == Outcome(f2.heap, f1.ret, NoError, <<>>)
                          IN  /\ heap' = out.heap
                              /\ ret' = out.ret
                              /\ err' = out.err
                              /\ calls' = out.calls

SetSplits ==
    /\ op = "init"
    /\ UNCHANGED <<client, estimatorVars>>
    /\ \E receivers \in SplitsOpLists \cup Lists(SplitsStructs, MaxLen) :
           LET a == Store(<<>>, receivers)
           IN  /\ op' = "setSplits"
               /\ args' = [receivers |-> a.ref]
               /\ pre' = a.heap
               /\ LET out == setSplits(a.heap, a.ref)
                  IN  /\ heap' = out.heap
                      /\ ret' = out.ret
                      /\ err' = out.err
                      /\ calls' = out.calls

SetDrips ==
    /\ op = "init"
    /\ UNCHANGED <<client, estimatorVars>>
    /\ \E erc20TokenAddress \in {"0xToken", "notAnAddress"}, balanceDelta \in {Undefined, Big(5)} :
           \E currentReceivers \in DripsOpLists, newReceivers \in DripsOpLists :
               LET c == Store(<<>>, currentReceivers)
                   n == Store(c.heap, newReceivers)
               IN  /\ op' = "setDrips"
                   /\ args' = [erc20TokenAddress |-> erc20TokenAddress,
                               currentReceivers |-> c.ref, newReceivers |-> n.ref,
                               balanceDelta |-> balanceDelta]
                   /\ pre' = n.heap
                   /\ LET out == setDrips(n.heap, erc20TokenAddress, c.ref, n.ref, balanceDelta)
                      IN  /\ heap' = out.heap
                          /\ ret' = out.ret
                          /\ err' = out.err
                          /\ calls' = out.calls

CollectAll ==
    /\ op = "init"
    /\ UNCHANGED <<client, estimatorVars>>
    /\ \E erc20TokenAddress \in Addresses, currentReceivers \in SplitsOpLists :
           LET a == Store(<<>>, currentReceivers)
           IN  /\ op' = "collectAll"
               /\ args' = [erc20TokenAddress |-> erc20TokenAddress, currentReceivers |-> a.ref]
               /\ pre' = a.heap
               /\ LET out == collectAll(a.heap, "0xSigner", erc20TokenAddress, a.ref)
                  IN  /\ heap' = out.heap
                      /\ ret' = out.ret
                      /\ err' = out.err
                      /\ calls' = out.calls

CollectAllForAddress ==
    /\ op = "init"
    /\ UNCHANGED <<client, estimatorVars>>
    /\ \E userAddress \in Addresses, erc20TokenAddress \in Addresses :
           \E currentReceivers \in SplitsOpLists :
               LET a == Store(<<>>, currentReceivers)
               IN  /\ op' = "collectAllForAddress"
                   /\ args' = [userAddress |-> userAddress, erc20TokenAddress |-> erc20TokenAddress,
                               currentReceivers |-> a.ref]
                   /\ pre' = a.heap
                   /\ LET out == collectAllForAddress(a.heap, userAddress, erc20TokenAddress, a.ref)
                      IN  /\ heap' = out.heap
                          /\ ret' = out.ret
                          /\ err' = out.err
                          /\ calls' = out.calls

\* A give that links the client to another signer.
GiveRelinking ==
    /\ op = "init"
    /\ UNCHANGED estimatorVars
    /\ client' = [client EXCEPT !.signer = "other", !.signerAddress = "0xOther"]
    /\ \E receiverId \in {Undefined, Num(0), Str(1)}, erc20TokenAddress \in Addresses :
           \E amount \in {Big(1), Big(-1)} :
               /\ op' = "give"
               /\ args' = [receiverId |-> receiverId, erc20TokenAddress |-> erc20TokenAddress, amount |-> amount]
               /\ pre' = <<>>
               /\ LET out == give(<<>>, receiverId, erc20TokenAddress, amount)
                  IN  /\ heap' = out.heap
                      /\ ret' = out.ret
                      /\ err' = out.err
                      /\ calls' = out.calls

Give ==
    /\ op = "init"
    /\ UNCHANGED <<client, estimatorVars>>
    /\ \E receiverId \in {Undefined, Num(0), Str(1)}, erc20TokenAddress \in Addresses :
           \E amount \in {Big(1), Big(-1)} :
               /\ op' = "give"
               /\ args' = [receiverId |-> receiverId, erc20TokenAddress |-> erc20TokenAddress, amount |-> amount]
               /\ pre' = <<>>
               /\ LET out == give(<<>>, receiverId, erc20TokenAddress, amount)
                  IN  /\ heap' = out.heap
                      /\ ret' = out.ret
                      /\ err' = out.err
                      /\ calls' = out.calls

CreateSplits ==
    /\ op = "init"
    /\ UNCHANGED <<client, estimatorVars>>
    /\ \E receivers \in SplitsOpLists, metadata \in {Absent, List(<<>>), List(<<"metadata">>)} :
           LET r == Store(<<>>, receivers)
               m == Store(r.heap, metadata)
           IN  /\ op' = "createSplits"
               /\ args' = [receivers |-> r.ref, metadata |-> m.ref]
               /\ pre' = m.heap
               /\ LET out == createSplits(m.heap, r.ref, m.ref)
                  IN  /\ heap' = out.heap
                      /\ ret' = out.ret
                      /\ err' = out.err
                      /\ calls' = out.calls

GetUsersStreamingToUser ==
    /\ op = "init"
    /\ UNCHANGED <<client, estimatorVars>>
    /\ \E receiverUserId \in {Undefined, Str(7)}, status \in {200, 500} :
           \E response \in {Absent} \cup
                           {List(l) : l \in ApiDripsReceiverSeenEvents(Str(7))} :
               LET a == Store(<<>>, response)
               IN  /\ op' = "getUsersStreamingToUser"
                   /\ args' = [receiverUserId |-> receiverUserId, status |-> status,
                               events |-> a.ref]
                   /\ pre' = a.heap
                   /\ LET out == getUsersStreamingToUser(a.heap, receiverUserId, status, a.ref)
                      IN  /\ heap' = out.heap
                          /\ ret' = out.ret
                          /\ err' = out.err
                          /\ calls' = out.calls

CreateNewStreamFlow ==
    /\ op = "init"
    /\ UNCHANGED <<client, estimatorVars>>
    /\ \E present \in BOOLEAN, tokenId \in {Undefined, Str(200)},
          tokenAddress \in {"0xToken", "notAnAddress"}, balanceDelta \in {Undefined, Num(1)} :
           \E userMetadata \in UserMetadata,
              currentReceivers \in {Absent, List(<<>>),
                                    List(<<[userId |-> Num(50), config |-> Num(toUint256(0, 1, 0, 0))],
                                           [userId |-> Num(1), config |-> Num(toUint256(0, 1, 0, 1))]>>)},
              newReceivers \in FlowDripsLists :
               LET c == Store(<<>>, currentReceivers)
                   n == Store(c.heap, newReceivers)
                   payload == IF present
                              THEN [present |-> TRUE, tokenId |-> tokenId,
                                    tokenAddress |-> tokenAddress,
                                    transferToAddress |-> "0xUser",
                                    balanceDelta |-> balanceDelta,
                                    currentReceivers |-> c.ref, newReceivers |-> n.ref,
                                    userMetadata |-> userMetadata]
                              ELSE NoPayload
               IN  /\ op' = "createNewStreamFlow"
                   /\ args' = [payload |-> payload]
                   /\ pre' = IF present THEN n.heap ELSE <<>>
                   /\ LET out == createNewStreamFlow(pre', payload)
                      IN  /\ heap' = out.heap
                          /\ ret' = out.ret
                          /\ err' = out.err
                          /\ calls' = out.calls

CreateCollectFlow ==
    /\ op = "init"
    /\ UNCHANGED <<client, estimatorVars>>
    /\ \E present \in BOOLEAN, tokenId \in {Undefined, Str(200)},
          tokenAddress \in {"0xToken", "notAnAddress"}, maxCycles \in {Num(0), Num(1)} :
           \E skipReceive \in BOOLEAN, skipSplit \in BOOLEAN,
              squeezeArgs \in SqueezeArgsLists, currentReceivers \in FlowSplitsLists :
               LET c == Store(<<>>, currentReceivers)
                   payload == IF present
                              THEN [present |-> TRUE, tokenId |-> tokenId, userId |-> Str(1),
                                    tokenAddress |-> tokenAddress,
                                    transferToAddress |-> "0xUser",
                                    maxCycles |-> maxCycles,
                                    currentReceivers |-> c.ref,
                                    squeezeArgs |-> squeezeArgs]
                              ELSE NoPayload
               IN  /\ op' = "createCollectFlow"
                   /\ args' = [payload |-> payload, skipReceive |-> skipReceive,
                               skipSplit |-> skipSplit]
                   /\ pre' = IF present THEN c.heap ELSE <<>>
                   /\ LET out == createCollectFlow(pre', payload, skipReceive, skipSplit)
                      IN  /\ heap' = out.heap
                          /\ ret' = out.ret
                          /\ err' = out.err
                          /\ calls' = out.calls

\* Utils.Cycle.getInfo(chainId) of a supported chain, called while the clock
\* reads now; the cycle it returns is a fresh object.
GetInfo ==
    /\ op = "init"
    /\ UNCHANGED <<client, estimatorVars>>
    /\ \E chainId \in SupportedChains :
          \E now \in Clock(chainId) :
              /\ op' = "getInfo"
              /\ args' = [chainId |-> chainId, now |-> now]
              /\ pre' = <<>>
              /\ heap' = <<getInfo(chainId, now)>>
              /\ ret' = 1
              /\ err' = NoError
              /\ calls' = <<>>

\* estimateAccount on the account of one incoming stream.
EstimateAccount ==
    /\ op = "init"
    /\ UNCHANGED <<client, estimatorVars>>
    /\ \E stream \in Streams :
          \E excludingSqueezes \in SqueezesOf(stream) :
              /\ op' = "estimateAccount"
              /\ args' = [stream |-> stream, now |-> Now, excludingSqueezes |-> excludingSqueezes]
              /\ pre' = <<>>
              /\ heap' = <<estimateAccount(stream, Now, excludingSqueezes)>>
              /\ ret' = 1
              /\ err' = NoError
              /\ calls' = <<>>

\* AddressAppClient.create(provider), as long as no instance was returned.
CreateClient ==
    /\ op = "init"
    /\ client = NoClient
    /\ UNCHANGED estimatorVars
    /\ \E provider \in Providers :
           /\ op' = "create"
           /\ args' = [provider |-> provider]
           /\ pre' = <<>>
           /\ heap' = <<>>
           /\ ret' = 0
           /\ calls' = <<>>
           /\ LET out == create(provider)
              IN  /\ err' = out.err
                  /\ client' = out.client

\* The call is over: the caller has its outcome and the client is idle again
\* (the client keeps nothing of a call).
Return ==
    /\ op # "init"
    /\ UNCHANGED <<client, estimatorVars>>
    /\ op' = "init"
    /\ args' = [none |-> 0]
    /\ pre' = <<>>
    /\ heap' = <<>>
    /\ ret' = 0
    /\ err' = NoError
    /\ calls' = <<>>

Next ==
    \/ ValidateDripsReceiverConfig
    \/ ValidateDripsReceivers
    \/ ValidateSplitsReceivers
    \/ FormatDripsReceivers
    \/ FormatSplitReceivers
    \/ Reformat
    \/ FormatPermuted
    \/ SetSplits
    \/ SetDrips
    \/ CollectAll
    \/ CollectAllForAddress
    \/ Give
    \/ CreateSplits
    \/ GetUsersStreamingToUser
    \/ CreateNewStreamFlow
    \/ CreateCollectFlow
    \/ GetInfo
    \/ EstimateAccount
    \/ Return

Spec == Init /\ [][Next]_vars

(***************************************************************************)
(* The state machine of one AddressAppClient: create, and then the methods *)
(* of the instance it returned.                                            *)
(***************************************************************************)
ClientNext ==
    \/ CreateClient
    \/ (client.state = "created" /\ SetSplits)
    \/ (client.state = "created" /\ SetDrips)
    \/ (client.state = "created" /\ CollectAll)
    \/ (client.state = "created" /\ CollectAllForAddress)
    \/ (client.state = "created" /\ Give)
    \/ Return

ClientSpec == Init /\ [][ClientNext]_vars

(***************************************************************************)
(* The state machine of one AccountEstimator.  A call of create or         *)
(* refreshAccount runs up to its await and is suspended there; the fetch   *)
(* settles in a later step, in any order with the other calls.             *)
(***************************************************************************)
\* AccountEstimator.create(userId, chainId): the guards, the construction,
\* and refreshAccount up to its await.
Create ==
    /\ estimator.state = "none"
    /\ Len(invocations) < MaxInvocations
    /\ UNCHANGED clientVars
    /\ \E userId \in {"", "1"}, chainId \in {0} \cup SupportedChains :
           LET e == createArgumentsError(userId, chainId)
           IN  IF e # NoError
               THEN /\ invocations' = Append(invocations,
                            Invocation("create", "rejected", 0, NoAccount, NoError, e))
                    /\ UNCHANGED <<estimator, account, fetched, quiet>>
               ELSE /\ estimator' = [state |-> "creating", userId |-> userId, chainId |-> chainId]
                    /\ invocations' = Append(invocations,
                            Invocation("create", "pending", 1, NoAccount, NoError, NoError))
                    /\ fetched' = fetched + 1
                    /\ quiet' = Quiet(account, fetched + 1)
                    /\ UNCHANGED account

\* refreshAccount() up to its await: fetchAccount is called.
RefreshAccount ==
    /\ estimator.state = "ready"
    /\ Len(invocations) < MaxInvocations
    /\ UNCHANGED clientVars
    /\ invocations' = Append(invocations,
            Invocation("refreshAccount", "pending", 1, NoAccount, NoError, NoError))
    /\ fetched' = fetched + 1
    /\ quiet' = Quiet(account, fetched + 1)
    /\ UNCHANGED <<estimator, account>>

\* A fetch resolves: refreshAccount resumes and assigns #account; create
\* then returns the estimator.
FetchResolves ==
    /\ UNCHANGED clientVars
    /\ \E i \in 1..Len(invocations), v \in 1..MaxVersion :
           /\ invocations[i].state = "pending"
           /\ account' = assignAccount(account, Snapshot(v))
           /\ invocations' = [invocations EXCEPT ![i] =
                  Invocation(@.method, "resolved", @.fetched, Snapshot(v), NoError, NoError)]
           /\ estimator' = IF invocations[i].method = "create"
                           THEN [estimator EXCEPT !.state = "ready"] ELSE estimator
           /\ quiet' = Quiet(account', fetched)
           /\ UNCHANGED fetched

\* A rejected fetch after which refreshAccount assigns the missing result
\* to #account before it throws.
FetchRejectsClearing ==
    /\ UNCHANGED clientVars
    /\ \E i \in 1..Len(invocations), failure \in FetchErrors :
           /\ invocations[i].state = "pending"
           /\ invocations' = [invocations EXCEPT ![i] = awaitRejected(@, failure)]
           /\ fetched' = fetched + (invocations'[i].fetched - invocations[i].fetched)
           /\ estimator' = IF invocations[i].method = "create" THEN NoEstimator ELSE estimator
           /\ account' = NoAccount
           /\ quiet' = Quiet(account', fetched')

\* A fetch rejects: refreshAccount throws at its await, and so does a create
\* awaiting it (no estimator is returned).
FetchRejects ==
    /\ UNCHANGED clientVars
    /\ \E i \in 1..Len(invocations), failure \in FetchErrors :
           /\ invocations[i].state = "pending"
           /\ invocations' = [invocations EXCEPT ![i] = awaitRejected(@, failure)]
           /\ fetched' = fetched + (invocations'[i].fetched - invocations[i].fetched)
           /\ estimator' = IF invocations[i].method = "create" THEN NoEstimator ELSE estimator
           /\ quiet' = Quiet(account, fetched')
           /\ UNCHANGED account

\* estimate(excludingSqueezes) on the estimator create returned.
Estimate ==
    /\ estimator.state = "ready"
    /\ Len(quiet.handed) < MaxEstimates
    /\ UNCHANGED clientVars
    /\ \E now \in EstimateClock(estimator.chainId), excludingSqueezes \in {"undefined", "squeezes"} :
           LET out == estimate(estimator.chainId, account, now, excludingSqueezes)
           IN  /\ account' = out.stored
               /\ fetched' = fetched + out.fetched
               /\ quiet' = [quiet EXCEPT !.handed = Append(@, out.engine)]
               /\ UNCHANGED <<estimator, invocations>>

EstimatorNext ==
    \/ Create
    \/ RefreshAccount
    \/ FetchResolves
    \/ FetchRejects
    \/ Estimate

EstimatorSpec == Init /\ [][EstimatorNext]_vars

(***************************************************************************)
(* Properties of the canonicalisation.                                     *)
(***************************************************************************)
\* A state right after a call of a format function.
Formatted == op = "format"

\* The list given to the format call and the list it returned.
In == pre[args.receivers]
Out == heap[ret]

\* The identity of a receiver: its user and its config or weight, as numbers.
Identity(kind, e) ==
    IF kind = "drips" THEN <<toBN(e.userId), toBN(e.config)>>
    ELSE <<toBN(e.userId), toBN(e.weight)>>

\* A list as the contract reads it: the identities of its entries in order.
Numeric(kind, s) == [i \in 1..Len(s) |-> Identity(kind, s[i])]

\* C1: canonicalising a list and canonicalising any permutation of it give
\* the same sequence of receivers, also when entries share a userId.
C1_OrderIndependent ==
    op = "formatPermuted" => Numeric(args.kind, heap[3]) = Numeric(args.kind, heap[4])

\* C2: canonicalising a canonical list returns it unchanged, element for
\* element.
C2_Idempotent ==
    (Formatted /\ args.canonical) => Out = In

\* A canonical list with two entries of one user was formatted again.
C2_Witness ==
    /\ Formatted /\ args.canonical
    /\ \E i, j \in 1..Len(In) : i < j /\ toBN(In[i].userId) = toBN(In[j].userId)

\* C3: the canonical list has no two entries of the same identity, and each
\* entry of it is the first entry of the input with that identity.
C3_Deduplicated ==
    Formatted =>
        /\ \A i, j \in 1..Len(Out) :
               i < j => Identity(args.kind, Out[i]) # Identity(args.kind, Out[j])
        /\ \A i \in 1..Len(Out) :
               \E k \in 1..Len(In) :
                   /\ Out[i] = In[k]
                   /\ \A m \in 1..(k - 1) :
                          Identity(args.kind, In[m]) # Identity(args.kind, In[k])

\* C4: the canonical drips list ascends by userId as a big integer, and
\* entries of one userId ascend by config as a big integer.
C4_DripsSorted ==
    (Formatted /\ args.kind = "drips") =>
        \A i \in 1..(Len(Out) - 1) :
            \/ toBN(Out[i].userId) < toBN(Out[i + 1].userId)
            \/ /\ toBN(Out[i].userId) = toBN(Out[i + 1].userId)
               /\ toBN(Out[i].config) <= toBN(Out[i + 1].config)

\* Users 100, 1, 50 with one config came out as 1, 50, 100.
C4_Witness ==
    /\ Formatted /\ args.kind = "drips"
    /\ Len(In) = 3 /\ Len(Out) = 3
    /\ <<toBN(In[1].userId), toBN(In[2].userId), toBN(In[3].userId)>> = <<100, 1, 50>>
    /\ In[1].config = In[2].config /\ In[2].config = In[3].config
    /\ <<toBN(Out[1].userId), toBN(Out[2].userId), toBN(Out[3].userId)>> = <<1, 50, 100>>

\* C5: the list setSplits hands to the contract ascends by userId as a big
\* integer, whatever the order of the input.
C5_SplitsSorted ==
    (op = "setSplits" /\ calls # <<>>) =>
        LET r == calls[1].lists[1]
        IN  \A i \in 1..(Len(r) - 1) : toBN(r[i].userId) <= toBN(r[i + 1].userId)

\* setSplits was given the larger userId first and called the contract.
C5_Witness ==
    /\ op = "setSplits" /\ calls # <<>>
    /\ Len(pre[1]) = 2
    /\ toBN(pre[1][1].userId) > toBN(pre[1][2].userId)

\* C6: a format call leaves the caller's list as it was and returns another
\* array.
C6_InputNotMutated ==
    Formatted => (heap[args.receivers] = pre[args.receivers] /\ ret # args.receivers)

\* A list that was not canonical was formatted: the result differs from it.
C6_Witness ==
    Formatted /\ Out # In

(***************************************************************************)
(* Properties of the validators.                                           *)
(***************************************************************************)
\* The error kinds of the specification in terms of the error codes.
InvalidReceiver == {"INVALID_DRIPS_RECEIVER", "INVALID_SPLITS_RECEIVER"}

Raises(codes) == err.type = "DripsError" /\ err.code \in codes

\* A field of a configuration is there and at least min.
FieldAtLeast(x, min) == ~isNullOrUndefined(x) /\ x.v >= min

\* A configuration that meets the invariant of the data model.
ConfigOk(c) ==
    /\ c.present
    /\ FieldAtLeast(c.dripId, 0) /\ FieldAtLeast(c.start, 0)
    /\ FieldAtLeast(c.duration, 0) /\ FieldAtLeast(c.amountPerSec, 1)

DripsReceiverOk(e) == ~isNullOrUndefined(e.userId) /\ ConfigOk(e.config)

SplitsReceiverOk(e) ==
    ~Falsy(e.userId) /\ ~isNullOrUndefined(e.weight) /\ e.weight.v > 0

\* C7: a list of valid receivers is rejected, with INVALID_ARGUMENT, exactly
\* when it is longer than 100 (drips) or 200 (splits).
C7_CountBoundary ==
    /\ (/\ op = "validateDripsReceivers" /\ args.receivers.present
        /\ \A i \in 1..Len(args.receivers.items) : DripsReceiverOk(args.receivers.items[i]))
       => IF Len(args.receivers.items) > 100
          THEN Raises({"INVALID_ARGUMENT"}) ELSE err = NoError
    /\ (/\ op = "validateSplitsReceivers" /\ args.receivers.present
        /\ \A i \in 1..Len(args.receivers.items) :
               SplitsReceiverOk(args.receivers.items[i]))
       => IF Len(args.receivers.items) > 200
          THEN Raises({"INVALID_ARGUMENT"}) ELSE err = NoError

\* 100 valid drips receivers were accepted.
C7_Witness ==
    /\ op = "validateDripsReceivers" /\ args.receivers.present
    /\ Len(args.receivers.items) = 100
    /\ err = NoError

\* C8: validateDripsReceiverConfig accepts exactly the configurations with
\* dripId, start, duration >= 0 and amountPerSec > 0 all present, and it
\* rejects amountPerSec = 0 with an InvalidReceiver error.
C8_ConfigBoundary ==
    op = "validateDripsReceiverConfig" =>
        /\ (err = NoError) <=> ConfigOk(args.config)
        /\ (/\ args.config.present
            /\ FieldAtLeast(args.config.dripId, 0) /\ FieldAtLeast(args.config.start, 0)
            /\ FieldAtLeast(args.config.duration, 0)
            /\ args.config.amountPerSec = Big(0))
           => Raises(InvalidReceiver)

\* The receiver lists checked, in a state right after a list validator.
Items == args.receivers.items

\* The error kinds of the list validators, for a reading of "the userId of a
\* splits receiver is missing" and of "the weight of a splits receiver is
\* bad": an absent list raises MissingArgument; within the count limit, the
\* first receiver with a defect decides, a missing userId or a bad weight
\* raises InvalidReceiver, and a list without defects raises nothing.
ErrorKinds(UserIdMissing(_), WeightBad(_)) ==
    /\ (op \in {"validateDripsReceivers", "validateSplitsReceivers"}
        /\ ~args.receivers.present)
       => Raises({"MISSING_ARGUMENT"})
    /\ (op = "validateDripsReceivers" /\ args.receivers.present
        /\ Len(Items) <= MAX_DRIPS_RECEIVERS)
       => /\ (\E i \in 1..Len(Items) :
                  /\ isNullOrUndefined(Items[i].userId)
                  /\ \A j \in 1..(i - 1) : DripsReceiverOk(Items[j]))
             => Raises({"INVALID_DRIPS_RECEIVER"})
          /\ (\A i \in 1..Len(Items) : DripsReceiverOk(Items[i])) => err = NoError
    /\ (op = "validateSplitsReceivers" /\ args.receivers.present
        /\ Len(Items) <= MAX_SPLITS_RECEIVERS)
       => LET Defect(e) == UserIdMissing(e.userId) \/ WeightBad(e.weight)
          IN  /\ (\E i \in 1..Len(Items) :
                      /\ Defect(Items[i])
                      /\ \A j \in 1..(i - 1) : ~Defect(Items[j]))
                 => Raises({"INVALID_SPLITS_RECEIVER"})
              /\ (\A i \in 1..Len(Items) : ~Defect(Items[i])) => err = NoError

NonPositive(weight) == ~isNullOrUndefined(weight) /\ weight.v <= 0

MissingOrNonPositive(weight) == isNullOrUndefined(weight) \/ weight.v <= 0

\* C9 as stated: the defects of a splits receiver are a missing (undefined)
\* userId and a weight <= 0.
C9_ErrorKindsAsStated == ErrorKinds(isNullOrUndefined, NonPositive)

\* C9, amended: an absent list raises MissingArgument; a receiver with a
\* missing userId raises InvalidReceiver, where a splits userId counts as
\* missing when it is falsy (0 as well as undefined); a splits receiver whose
\* weight is missing or <= 0 raises InvalidReceiver; a list with none of
\* these defects, within the count limit and with valid configs, raises
\* nothing, the empty list included.
C9_ErrorKinds == ErrorKinds(Falsy, MissingOrNonPositive)

\* A splits list whose only defect is an absent weight was rejected.
C9_Witness ==
    /\ op = "validateSplitsReceivers" /\ args.receivers.present
    /\ \E i \in 1..Len(Items) :
           /\ ~Falsy(Items[i].userId) /\ isNullOrUndefined(Items[i].weight)
           /\ \A j \in 1..Len(Items) : j # i => SplitsReceiverOk(Items[j])
    /\ Raises({"INVALID_SPLITS_RECEIVER"})

(***************************************************************************)
(* Properties of the client operations.                                    *)
(***************************************************************************)
ClientOps ==
    {"setDrips", "setSplits", "collectAll", "collectAllForAddress", "give", "createSplits"}

\* A splits list argument that every check of validateSplitsReceivers lets
\* through, and the same for a list of DripsReceiverStructs.
SplitsArgOk(h, r) ==
    /\ r # 0
    /\ Len(h[r]) <= MAX_SPLITS_RECEIVERS
    /\ \A i \in 1..Len(h[r]) : SplitsReceiverOk(h[r][i])

DripsArgOk(h, r) ==
    /\ r # 0
    /\ Len(h[r]) <= MAX_DRIPS_RECEIVERS
    /\ \A i \in 1..Len(h[r]) : DripsReceiverOk(toDripsReceiver(h[r][i]))

\* Every validation step of the operation passes on its arguments.
ArgumentsOk ==
    CASE op = "setSplits" -> SplitsArgOk(pre, args.receivers)
      [] op = "setDrips" ->
            /\ isAddress(args.erc20TokenAddress)
            /\ DripsArgOk(pre, args.newReceivers)
            /\ DripsArgOk(pre, args.currentReceivers)
      [] op = "collectAll" ->
            isAddress(args.erc20TokenAddress) /\ SplitsArgOk(pre, args.currentReceivers)
      [] op = "collectAllForAddress" ->
            /\ isAddress(args.userAddress) /\ isAddress(args.erc20TokenAddress)
            /\ SplitsArgOk(pre, args.currentReceivers)
      [] op = "give" -> ~Falsy(args.receiverId) /\ isAddress(args.erc20TokenAddress)
      [] op = "createSplits" -> SplitsArgOk(pre, args.receivers) /\ args.metadata # 0

\* C10: when a client operation raises a validation error it has made no
\* contract call, and it makes a contract call only with every validation
\* step passed.
C10_NoPartialWork ==
    op \in ClientOps =>
        /\ err # NoError => calls = <<>>
        /\ calls # <<>> => (ArgumentsOk /\ err = NoError)

\* setDrips failed on its last validation step, that of currentReceivers,
\* and made no call.
C10_Witness ==
    /\ op = "setDrips"
    /\ isAddress(args.erc20TokenAddress)
    /\ DripsArgOk(pre, args.newReceivers)
    /\ ~DripsArgOk(pre, args.currentReceivers)
    /\ err # NoError
    /\ calls = <<>>

(***************************************************************************)
(* Properties of what the client operations submit.                        *)
(***************************************************************************)
\* The canonical order of the protocol: ascending userId, and for drips
\* ascending config among the entries of one userId.
InOrder(kind, r) ==
    \A i \in 1..(Len(r) - 1) :
        \/ toBN(r[i].userId) < toBN(r[i + 1].userId)
        \/ /\ toBN(r[i].userId) = toBN(r[i + 1].userId)
           /\ kind = "drips" => toBN(r[i].config) <= toBN(r[i + 1].config)

NoDuplicates(kind, r) ==
    \A i, j \in 1..Len(r) : i < j => Identity(kind, r[i]) # Identity(kind, r[j])

Canonical(kind, r) == InOrder(kind, r) /\ NoDuplicates(kind, r)

\* Two lists hold the same receivers.
SameReceivers(kind, r, s) ==
    {Identity(kind, r[i]) : i \in 1..Len(r)} = {Identity(kind, s[i]) : i \in 1..Len(s)}

\* The receiver lists of the contract call made by the operation.
Submitted ==
    IF op = "createSplits" THEN <<calls[1].lists[1]>> ELSE calls[1].lists

\* C11: every receiver list a client operation hands to the contract is
\* deduplicated and in the canonical order.
C11_CanonicalSubmission ==
    (/\ op \in {"setDrips", "setSplits", "collectAll", "collectAllForAddress", "createSplits"}
     /\ calls # <<>>)
    => \A i \in 1..Len(Submitted) :
           Canonical(IF op = "setDrips" THEN "drips" ELSE "splits", Submitted[i])

\* C12: setSplits with a valid list calls the contract's setSplits exactly
\* once, with the receivers of the list deduplicated and sorted by userId;
\* an empty list is submitted as an empty list.
C12_SetSplitsCall ==
    (op = "setSplits" /\ SplitsArgOk(pre, args.receivers)) =>
        /\ err = NoError
        /\ Len(calls) = 1
        /\ calls[1].method = "setSplits"
        /\ Canonical("splits", calls[1].lists[1])
        /\ SameReceivers("splits", calls[1].lists[1], pre[args.receivers])
        /\ pre[args.receivers] = <<>> => calls[1].lists[1] = <<>>

\* C13: setDrips with valid inputs calls the contract's setDrips exactly
\* once with the token address, the current receivers, the balance delta (0
\* when it is omitted) and the new receivers deduplicated and sorted; an
\* empty list of new receivers is submitted as an empty list.
C13_SetDripsCall ==
    (op = "setDrips" /\ ArgumentsOk) =>
        /\ err = NoError
        /\ Len(calls) = 1
        /\ calls[1].method = "setDrips"
        /\ calls[1].scalars[1] = args.erc20TokenAddress
        /\ toBN(calls[1].scalars[2]) =
               (IF isNullOrUndefined(args.balanceDelta) THEN 0 ELSE toBN(args.balanceDelta))
        /\ SameReceivers("drips", calls[1].lists[1], pre[args.currentReceivers])
        /\ Canonical("drips", calls[1].lists[2])
        /\ SameReceivers("drips", calls[1].lists[2], pre[args.newReceivers])
        /\ pre[args.newReceivers] = <<>> => calls[1].lists[2] = <<>>

(***************************************************************************)
(* Properties of the AccountEstimator.                                     *)
(***************************************************************************)
\* C14: the estimates made with no refresh called or settled in between
\* call fetchAccount zero times, leave the stored snapshot as it was, and
\* hand that same snapshot to the engine every time.
C14_EstimateNoSideEffects ==
    /\ \A i \in 1..Len(quiet.handed) : quiet.handed[i].account = quiet.account
    /\ Len(quiet.handed) > 0 => (account = quiet.account /\ fetched = quiet.fetched)

\* Two estimates in a row on a fetched snapshot.
C14_Witness ==
    Len(quiet.handed) >= 2 /\ account # NoAccount

\* A snapshot that is one fetch result as a whole (or the initial one).
Complete(a) == \E v \in 0..MaxVersion : a = Snapshot(v)

\* Invocation i is resumed with its fetch result in the step.
Resolving(i) ==
    invocations[i].state = "pending" /\ invocations'[i].state = "resolved"

\* C15: the stored snapshot is always one fetch result as a whole; it
\* changes only in the step in which a fetch resolves, and then to the
\* complete result of that fetch; every estimate is handed the snapshot
\* stored at its call, the old one while a fetch is in flight.
C15_AtomicReplace ==
    [][/\ Complete(account')
       /\ \A i \in 1..Len(invocations) : Resolving(i) => account' = invocations'[i].result
       /\ (\A i \in 1..Len(invocations) : ~Resolving(i)) => account' = account
       /\ Len(quiet'.handed) > Len(quiet.handed)
          => quiet'.handed[Len(quiet'.handed)].account = account]_vars

\* An estimate was handed the stored snapshot while a refresh was in flight
\* that later replaced it by another one.
C15_Witness ==
    /\ \E i \in 1..Len(invocations) :
           /\ invocations[i].method = "refreshAccount"
           /\ invocations[i].state = "resolved"
           /\ \E j \in 1..(i - 1) :
                  /\ invocations[j].state = "resolved"
                  /\ invocations[j].result # invocations[i].result
    /\ Len(quiet.handed) > 0
    /\ quiet.handed[1].account = account

\* C16: when fetchAccount fails during create or refreshAccount, the caller
\* is thrown that same failure, and the invocation has called fetchAccount
\* exactly once.
C16_FailurePropagated ==
    \A i \in 1..Len(invocations) :
        /\ invocations[i].failure # NoError =>
               /\ invocations[i].state = "rejected"
               /\ invocations[i].thrown = invocations[i].failure
               /\ invocations[i].fetched = 1
        /\ invocations[i].fetched <= 1

\* The fetch of a create failed, and later the fetch of a refreshAccount.
C16_Witness ==
    \E i, j \in 1..Len(invocations) :
        /\ invocations[i].method = "create" /\ invocations[i].failure \in FetchErrors
        /\ invocations[j].method = "refreshAccount" /\ invocations[j].failure \in FetchErrors

(***************************************************************************)
(* Properties of the subgraph client.                                      *)
(***************************************************************************)
\* The senders of the events the subgraph answered with, in event order.
Senders ==
    IF args.events = 0 THEN <<>>
    ELSE [i \in 1..Len(pre[args.events]) |-> toBN(pre[args.events][i].senderUserId)]

\* The position of the first event of sender id.
FirstSeen(id) == CHOOSE i \in 1..Len(Senders) :
                     Senders[i] = id /\ \A j \in 1..(i - 1) : Senders[j] # id

\* C17: getUsersStreamingToUser returns every sender of the receiver's
\* events exactly once, in the order of the senders' first events, and
\* nothing else.
C17_UniqueSenders ==
    (op = "getUsersStreamingToUser" /\ err = NoError) =>
        LET out == [i \in 1..Len(heap[ret]) |-> toBN(heap[ret][i])]
        IN  /\ {out[i] : i \in 1..Len(out)} = {Senders[i] : i \in 1..Len(Senders)}
            /\ \A i, j \in 1..Len(out) : i < j => out[i] # out[j]
            /\ \A i, j \in 1..Len(out) : i < j => FirstSeen(out[i]) < FirstSeen(out[j])

\* A sender seen first, another one, then the first again: two senders
\* returned.
C17_Witness ==
    /\ op = "getUsersStreamingToUser" /\ err = NoError
    /\ Len(Senders) = 3 /\ Senders[1] = Senders[3] /\ Senders[1] # Senders[2]
    /\ Len(heap[ret]) = 2

(***************************************************************************)
(* Properties of the batched flows.                                        *)
(***************************************************************************)
\* The methods of the calls of the batch, in order.
Methods == [i \in 1..Len(calls) |-> calls[i].method]

\* The number of entries of the payload's squeezeArgs.
Squeezes ==
    IF args.payload.squeezeArgs.present THEN Len(args.payload.squeezeArgs.items) ELSE 0

\* C18: the batch createCollectFlow returns is one squeezeDrips call per
\* squeezeArgs entry in the order of squeezeArgs, then receiveDrips unless
\* skipReceive, then split unless skipSplit, then collect as the last call.
C18_CollectFlowOrder ==
    (op = "createCollectFlow" /\ err = NoError) =>
        LET r == IF args.skipReceive THEN 0 ELSE 1
            p == IF args.skipSplit THEN 0 ELSE 1
        IN  /\ Len(calls) = Squeezes + r + p + 1
            /\ \A i \in 1..Squeezes :
                   /\ Methods[i] = "squeezeDrips"
                   /\ calls[i].scalars[3] = args.payload.squeezeArgs.items[i].senderId
            /\ ~args.skipReceive => Methods[Squeezes + 1] = "receiveDrips"
            /\ ~args.skipSplit => Methods[Squeezes + r + 1] = "split"
            /\ Methods[Len(calls)] = "collect"
            /\ \A i \in 1..(Len(calls) - 1) : Methods[i] # "collect"

\* A flow with two squeezes of different senders, receiveDrips and split.
C18_Witness ==
    /\ op = "createCollectFlow" /\ err = NoError
    /\ ~args.skipReceive /\ ~args.skipSplit
    /\ Squeezes = 2
    /\ args.payload.squeezeArgs.items[1].senderId # args.payload.squeezeArgs.items[2].senderId
    /\ Len(calls) = 5

OnBoundary(chainId, now) ==
    \E k \in 0..(MaxCycles + 1) :
        now = NetworkConfigs[chainId].EPOCH + k * NetworkConfigs[chainId].CYCLE_SECS

\* C20: for every supported chain and every time now >= epoch the cycle has
\* currentCycleStartDate = now - ((now - epoch) mod cycleDurationSecs) and
\* nextCycleStartDate = currentCycleStartDate + cycleDurationSecs, hence
\* currentCycleStartDate <= now < nextCycleStartDate, and a now exactly on a
\* cycle boundary yields currentCycleStartDate = now.
C20_CycleCalculation ==
    op = "getInfo" =>
        LET cycle == heap[ret]
            now == args.now
            epoch == NetworkConfigs[args.chainId].EPOCH
            cycleDurationSecs == NetworkConfigs[args.chainId].CYCLE_SECS
        IN  /\ now >= epoch
            /\ cycle.cycleDurationSecs = cycleDurationSecs
            /\ cycle.currentCycleStartDate = now - ((now - epoch) % cycleDurationSecs)
            /\ cycle.nextCycleStartDate = cycle.currentCycleStartDate + cycleDurationSecs
            /\ cycle.currentCycleStartDate <= now
            /\ now < cycle.nextCycleStartDate
            /\ OnBoundary(args.chainId, now) => cycle.currentCycleStartDate = now

\* A reading on the start of the third one-week cycle, and the cycle got
\* starts at the reading.
C20_Witness ==
    /\ op = "getInfo"
    /\ NetworkConfigs[args.chainId].CYCLE_SECS = 604800
    /\ args.now = NetworkConfigs[args.chainId].EPOCH + 2 * 604800
    /\ heap[ret].currentCycleStartDate = args.now
    /\ heap[ret].nextCycleStartDate = args.now + 604800

(***************************************************************************)
(* More properties of the AccountEstimator.                                *)
(***************************************************************************)
\* Invocation i is thrown the failure of its fetch in the step.
Rejecting(i) ==
    invocations[i].state = "pending" /\ invocations'[i].state = "rejected"

\* C25: when fetchAccount fails during refreshAccount() on a created
\* estimator, the stored account after the failure is exactly the snapshot
\* stored before it (the one stored at the call when no other refresh
\* resolved in between), and an estimate() that follows hands that old
\* snapshot to the engine.
C25_FailedRefreshKeepsSnapshot ==
    [][\A i \in 1..Len(invocations) :
           (Rejecting(i) /\ invocations[i].method = "refreshAccount") =>
               /\ account' = account
               /\ account' = quiet.account
               /\ estimator' = estimator
               /\ \A now \in EstimateClock(estimator'.chainId) :
                      estimate(estimator'.chainId, account', now, "undefined").engine.account
                          = account]_vars

\* The only refresh of a created estimator failed, and an estimate made
\* after the failure was handed the snapshot that create fetched.
C25_Witness ==
    /\ Len(invocations) = 2
    /\ invocations[1].method = "create" /\ invocations[1].state = "resolved"
    /\ invocations[2].method = "refreshAccount" /\ invocations[2].state = "rejected"
    /\ account = invocations[1].result
    /\ Len(quiet.handed) > 0
    /\ quiet.handed[1].account = invocations[1].result

\* No call of create or refreshAccount is waiting for its fetch.
AllCompleted == \A i \in 1..Len(invocations) : invocations[i].state # "pending"

\* The refreshes (the one of create included) whose fetch succeeded.
Resolved == {i \in 1..Len(invocations) : invocations[i].state = "resolved"}

\* C26: when the refreshes in flight have all completed, the stored
\* snapshot is the result of the refresh that was started last among those
\* that fetched one: a fetch started earlier never overwrites the result of
\* a fetch started later.
C26_LastStartedWins ==
    (AllCompleted /\ Resolved # {}) =>
        account = invocations[CHOOSE i \in Resolved : \A j \in Resolved : j <= i].result

\* C27: create rejects with a client-initialization error, without calling
\* fetchAccount, when userId or chainId is missing; otherwise it calls
\* fetchAccount exactly once and resolves only after that fetch succeeded;
\* the estimator handed to the caller has a defined account, and its userId
\* and chainId never change afterwards.
C27_NeverWithoutSnapshot ==
    [][/\ \A i \in 1..Len(invocations') :
              invocations'[i].method = "create" =>
                  /\ (invocations'[i].thrown # NoError /\ invocations'[i].failure = NoError) =>
                         /\ invocations'[i].thrown.type = "DripsError"
                         /\ invocations'[i].thrown.factory = "clientInitializationError"
                         /\ invocations'[i].fetched = 0
                  /\ invocations'[i].state \in {"pending", "resolved"} =>
                         invocations'[i].fetched = 1
                  /\ invocations'[i].state = "resolved" =>
                         invocations'[i].result # NoAccount
       /\ estimator'.state = "ready" =>
              /\ account' # NoAccount
              /\ estimator'.userId # "" /\ estimator'.chainId # 0
       /\ estimator.state = "ready" => estimator' = estimator]_vars

(***************************************************************************)
(* Properties of the validators: precedence and taxonomy.                  *)
(***************************************************************************)
\* The checks on a drips receiver in the order the claim gives them.
CheckOrder == <<"userId", "config", "dripId", "start", "duration", "amountPerSec">>

\* The checks a drips receiver does not pass, each taken by itself.
Defects(e) ==
    {c \in {"userId"} : isNullOrUndefined(e.userId)} \cup
    {c \in {"config"} : ~e.config.present} \cup
    {c \in {"dripId"} : ~FieldAtLeast(e.config.dripId, 0)} \cup
    {c \in {"start"} : ~FieldAtLeast(e.config.start, 0)} \cup
    {c \in {"duration"} : ~FieldAtLeast(e.config.duration, 0)} \cup
    {c \in {"amountPerSec"} : ~FieldAtLeast(e.config.amountPerSec, 1)}

\* The first of them in the order of the claim.
FirstDefect(e) ==
    CheckOrder[CHOOSE k \in 1..Len(CheckOrder) :
                   /\ CheckOrder[k] \in Defects(e)
                   /\ \A j \in 1..(k - 1) : CheckOrder[j] \notin Defects(e)]

\* The factory the code calls where a check fails.
FactoryOf(check) ==
    IF check \in {"userId", "config"} THEN "dripsReceiverError" ELSE "dripsReceiverConfigError"

\* The first receiver of the list checked that has a defect.
FirstInvalid(Ok(_)) ==
    CHOOSE i \in 1..Len(Items) : ~Ok(Items[i]) /\ \A j \in 1..(i - 1) : Ok(Items[j])

\* C28: in validateDripsReceivers and validateSplitsReceivers the absent
\* list is raised before the count, the count before any defect of an
\* entry (a list that is too long and holds an invalid entry raises the
\* count error), and otherwise the error is the one of the first invalid
\* entry in list order; on a drips entry the checks come in the order
\* userId, config, dripId, start, duration, amountPerSec.
C28_ValidationPrecedence ==
    /\ op = "validateDripsReceivers" =>
           IF ~args.receivers.present THEN err.factory = "argumentMissingError"
           ELSE IF Len(Items) > MAX_DRIPS_RECEIVERS THEN err.factory = "argumentError"
           ELSE IF \A i \in 1..Len(Items) : DripsReceiverOk(Items[i]) THEN err = NoError
           ELSE LET e == Items[FirstInvalid(DripsReceiverOk)]
                IN  /\ dripsReceiverCheck(e) = FirstDefect(e)
                    /\ err.factory = FactoryOf(FirstDefect(e))
                    /\ err = validateDripsReceiver(e)
    /\ op = "validateSplitsReceivers" =>
           IF ~args.receivers.present THEN err.factory = "argumentMissingError"
           ELSE IF Len(Items) > MAX_SPLITS_RECEIVERS THEN err.factory = "argumentError"
           ELSE IF \A i \in 1..Len(Items) : SplitsReceiverOk(Items[i]) THEN err = NoError
           ELSE /\ err.factory = "splitsReceiverError"
                /\ err = validateSplitsReceiver(Items[FirstInvalid(SplitsReceiverOk)])
    /\ (op = "validateDripsReceiverConfig" /\ args.config.present /\ ~ConfigOk(args.config)) =>
           LET e == [userId |-> Str(1), config |-> args.config]
           IN  /\ dripsReceiverConfigCheck(args.config) = FirstDefect(e)
               /\ err.factory = FactoryOf(FirstDefect(e))

\* A drips list that is too long and ends with an invalid entry raised the
\* count error.
C28_Witness ==
    /\ op = "validateDripsReceivers" /\ args.receivers.present
    /\ Len(Items) > MAX_DRIPS_RECEIVERS
    /\ ~DripsReceiverOk(Items[Len(Items)])
    /\ err = Throw("argumentError")

\* C29: every rejection raised by validateDripsReceiverConfig,
\* validateDripsReceivers and validateSplitsReceivers (and by validateAddress
\* in the operations that call it) is a DripsError created by a factory that
\* DripsErrors defines, with a code that is a member of DripsErrorCode.
C29_ErrorTaxonomy ==
    (op # "init" /\ err # NoError) =>
        /\ err.type = "DripsError"
        /\ err.factory \in DOMAIN DripsErrors
        /\ err.code \in DripsErrorCode

(***************************************************************************)
(* Conservation of the receivers by the canonicalisation.                  *)
(***************************************************************************)
\* C30: every entry of the canonical list is an entry of the input, every
\* identity ((userId, config) or (userId, weight)) of the input is in the
\* canonical list exactly once, and the length of the canonical list is the
\* number of distinct identities of the input.
C30_Conservation ==
    Formatted =>
        /\ \A i \in 1..Len(Out) : \E k \in 1..Len(In) : Out[i] = In[k]
        /\ \A k \in 1..Len(In) :
               Cardinality({i \in 1..Len(Out) :
                   Identity(args.kind, Out[i]) = Identity(args.kind, In[k])}) = 1
        /\ Len(Out) = Cardinality({Identity(args.kind, In[k]) : k \in 1..Len(In)})

(***************************************************************************)
(* Properties of AddressAppClient.create and of the instance.              *)
(***************************************************************************)
\* C23: create raises MISSING_ARGUMENT for a missing provider,
\* INVALID_ARGUMENT for a provider whose signer address is missing,
\* INVALID_ADDRESS for a signer address that is not valid, and
\* UNSUPPORTED_NETWORK for a provider (with a valid signer address) on an
\* unsupported chain; whenever create fails, no instance is returned.
C23_CreateErrors ==
    op = "create" =>
        LET provider == args.provider
        IN  /\ ~provider.present => Raises({"MISSING_ARGUMENT"})
            /\ (provider.present /\ provider.signerAddress = "")
               => Raises({"INVALID_ARGUMENT"})
            /\ (provider.present /\ provider.signerAddress # ""
                /\ ~isAddress(provider.signerAddress))
               => Raises({"INVALID_ADDRESS"})
            /\ (provider.present /\ isAddress(provider.signerAddress)
                /\ provider.chainId \notin SupportedChains)
               => Raises({"UNSUPPORTED_NETWORK"})
            /\ err # NoError => (client = NoClient /\ ret = 0)

\* A provider with a valid signer on an unsupported chain was rejected.
C23_Witness ==
    /\ op = "create"
    /\ args.provider.present /\ isAddress(args.provider.signerAddress)
    /\ args.provider.chainId = 4
    /\ err = Throw("unsupportedNetworkError")
    /\ client = NoClient

\* C24: once create has returned an instance, its signer, signerAddress,
\* network, provider, chainDripsMetadata and dripsHub never change, whatever
\* operations are called on it and whether they succeed or fail.
C24_Immutable ==
    [][client.state = "created" =>
           /\ client'.signer = client.signer
           /\ client'.signerAddress = client.signerAddress
           /\ client'.network = client.network
           /\ client'.provider = client.provider
           /\ client'.chainDripsMetadata = client.chainDripsMetadata
           /\ client'.dripsHub = client.dripsHub]_vars

\* An operation on a created instance went through to the contract.
C24_Witness ==
    /\ client.state = "created"
    /\ op \in {"setSplits", "setDrips", "collectAll", "collectAllForAddress", "give"}
    /\ calls # <<>>

Running(stream, now) == stream.start..(now - 1)

====
